---- MODULE Spec2Model ----
(***************************************************************************)
(* Verification model of the LTC (linear timecode) decoder.                *)
(*                                                                         *)
(*   - LtcFrameData / LtcFrame: the 64 + 16 bit shift registers and the    *)
(*     field codec (src/src/ltc_frame).                                    *)
(*   - SampleBounds, ZeroDetector, BitDecoder: the expected-event-window   *)
(*     bit decoder (src/src/ltc_decoder/bit_decoder).                      *)
(*   - ThresholdCrossDetector, BitDecoder: the threshold-cross bit decoder *)
(*     (src/src/ltc_decoder/bit_decoder.rs).                               *)
(*   - LtcDecoder: the pipelines sample -> bit -> frame, push_sample and   *)
(*     get_timecode_frame.                                                 *)
(*                                                                         *)
(* A u64 register is a function 0..63 -> {0,1} (bit i of the word), since  *)
(* the model checker's integers are 32 bits wide.  A u16 is an integer     *)
(* taken modulo 2^16.                                                       *)
(***************************************************************************)
EXTENDS Integers, Sequences, FiniteSets, TLC

VARIABLES
    ltc_frame,   \* LtcFrame: [sync_word, data]
    pending,     \* bits of the current chunk still to be shifted in
    pc,          \* "shift": next call is shift_bit, "get": next call is get_data
    got,         \* what the last get_data call returned
    bits,        \* every bit passed to shift_bit since construction, oldest first
    sent,        \* the chunks handed to the frame so far
    events,      \* the payloads returned as Some, in order, with the bit count
    bit_decoder, \* BitDecoder (expected-event-window) with its SampleBounds and ZeroDetector
    signal,      \* the audio source: sample rate, level, samples left in the run, runs so far
    obs,         \* what the last BitDecoder::push_sample call saw and returned
    trace,       \* bits decoded since the last lock, locks and losses of lock so far
    decoder,     \* LtcDecoder (threshold-cross pipeline): ltc_frame, bit_decoder, sampling_rate
    tape,        \* the LTC recording being played: frame, bit and run under way
    returned,    \* the frames get_timecode_frame returned: how many, the last two,
                 \* and what the last call returned
    sample_bounds, \* SampleBounds, the calibrator on its own
    feed,        \* the samples pushed into the calibrator: how many, the last 255
    answer,      \* the last call on the calibrator and what it returned
    zero_detector, \* ZeroDetector on its own
    levels,      \* the levels handed to the zero detector: the run under way, the last answer
    frame_data,  \* LtcFrameData, the payload word on its own
    codec,       \* the values to encode, how far the setters got, what the getters read
    timecode,    \* TimecodeFrame, on its own
    clock,       \* the timecode before the last add_frame call, and the calls so far
    measured,    \* a payload duration (samples at a rate) and the frame rate found for it
    cross_state, \* ThresholdCrossState (bit_decoder.rs), on its own
    sized,       \* the last call on the cross state: the size, the state before, the answer
    detector,    \* ThresholdCrossDetector of bit_decoder/threshold_cross_detector.rs
    wave,        \* the two-level signal handed to it: pattern of runs, run under way
    crossed      \* what the last crosses() call returned, and the crosses so far

frameVars == <<ltc_frame, pending, pc, got, bits, sent, events>>
bitVars == <<bit_decoder, signal, obs, trace>>
ltcVars == <<decoder, tape, returned>>
calVars == <<sample_bounds, feed, answer>>
zeroVars == <<zero_detector, levels>>
codecVars == <<frame_data, codec>>
\* the components that are also checked on their own
clockVars == <<timecode, clock>>
sizeVars == <<cross_state, sized>>
detectorVars == <<detector, wave, crossed>>
unitVars == <<codecVars, clockVars, measured, sizeVars, detectorVars>>

vars == <<ltc_frame, pending, pc, got, bits, sent, events, bit_decoder, signal, obs, trace,
          decoder, tape, returned, sample_bounds, feed, answer, zero_detector, levels,
          frame_data, codec, timecode, clock, measured, cross_state, sized,
          detector, wave, crossed>>

(***************************************************************************)
(* Widths and constants of the source.                                     *)
(***************************************************************************)
DATA_BITS == 64
SYNC_BITS == 16
\* 0b_0011_1111_1111_1101
LTC_SYNC_WORD == 16381

\* Bounds of the exploration.
MaxFrames == 3
MaxChunks == 3
MaxRuns == 4
MaxSamples == 400
MaxTapeFrames == 3

RECURSIVE Pow2(_)
Pow2(n) == IF n = 0 THEN 1 ELSE 2 * Pow2(n - 1)

RECURSIVE SumBits(_, _, _)
\* value of bits lo..hi-1 of word d, bit lo weighing 1
SumBits(d, lo, hi) ==
    IF lo >= hi THEN 0 ELSE d[lo] + 2 * SumBits(d, lo + 1, hi)

(***************************************************************************)
(* LtcFrameData (ltc_frame_data.rs)                                        *)
(***************************************************************************)
BIT_RANGE_FRAME_UNITS == <<0, 4>>
BIT_RANGE_FRAME_UNITS_USER_BITS == <<4, 8>>
BIT_RANGE_FRAME_TENS == <<8, 10>>
BIT_RANGE_FRAME_TENS_USER_BITS == <<12, 16>>
BIT_RANGE_SECOND_UNITS == <<16, 20>>
BIT_RANGE_SECOND_UNITS_USER_BITS == <<20, 24>>
BIT_RANGE_SECOND_TENS == <<24, 27>>
BIT_RANGE_SECOND_TENS_USER_BITS == <<28, 32>>
BIT_RANGE_MINUTE_UNITS == <<32, 36>>
BIT_RANGE_MINUTE_UNITS_USER_BITS == <<36, 40>>
BIT_RANGE_MINUTE_TENS == <<40, 43>>
BIT_RANGE_MINUTE_TENS_USER_BITS == <<44, 48>>
BIT_RANGE_HOUR_UNITS == <<48, 52>>
BIT_RANGE_HOUR_UNITS_USER_BITS == <<52, 56>>
BIT_RANGE_HOUR_TENS == <<56, 58>>
BIT_RANGE_HOUR_TENS_USER_BITS == <<60, 64>>

\* LtcFrameData::new_empty
new_empty_data == [i \in 0..(DATA_BITS - 1) |-> 0]

\* u64::set_bits(range, bits as u64): the low bits of the value go into the range
set_bits(d, range, v) ==
    [i \in 0..(DATA_BITS - 1) |->
        IF range[1] <= i /\ i < range[2]
            THEN (v \div Pow2(i - range[1])) % 2
            ELSE d[i]]

\* mutant: the pair is returned as (units, tens)
split_to_tens_and_units_swapped(val) ==
    LET units == val % 10
    IN  <<units, (val - units) \div 10>>

\* split_to_tens_and_units: (tens, units)
split_to_tens_and_units(val) ==
    LET units == val % 10
    IN  <<(val - units) \div 10, units>>

set_frames(d, frames) ==
    LET tu == split_to_tens_and_units(frames)
    IN  set_bits(set_bits(d, BIT_RANGE_FRAME_TENS, tu[1]), BIT_RANGE_FRAME_UNITS, tu[2])

set_seconds(d, seconds) ==
    LET tu == split_to_tens_and_units(seconds)
    IN  set_bits(set_bits(d, BIT_RANGE_SECOND_TENS, tu[1]), BIT_RANGE_SECOND_UNITS, tu[2])

set_minutes(d, minutes) ==
    LET tu == split_to_tens_and_units(minutes)
    IN  set_bits(set_bits(d, BIT_RANGE_MINUTE_TENS, tu[1]), BIT_RANGE_MINUTE_UNITS, tu[2])

\* mutant: the tens are written over the whole nibble at 56, reserved bits included
set_hours_over_reserved(d, hours) ==
    LET tu == split_to_tens_and_units(hours)
    IN  set_bits(set_bits(d, <<56, 60>>, tu[1]), BIT_RANGE_HOUR_UNITS, tu[2])

set_hours(d, hours) ==
    LET tu == split_to_tens_and_units(hours)
    IN  set_bits(set_bits(d, BIT_RANGE_HOUR_TENS, tu[1]), BIT_RANGE_HOUR_UNITS, tu[2])

\* LtcFrameData::new_with_time
new_with_time(hours, minutes, seconds, frames) ==
    set_frames(set_seconds(set_minutes(set_hours(new_empty_data, hours), minutes), seconds), frames)

\* mutant: the highest bit of the range is left out
get_bits_short(d, range) == SumBits(d, range[1], range[2] - 1) % 256

\* LtcFrameData::get_bits: self.data.bits(range) as u8
get_bits(d, range) == SumBits(d, range[1], range[2]) % 256

get_frames(d) == (get_bits(d, BIT_RANGE_FRAME_UNITS) + 10 * get_bits(d, BIT_RANGE_FRAME_TENS)) % 256
get_seconds(d) == (get_bits(d, BIT_RANGE_SECOND_UNITS) + 10 * get_bits(d, BIT_RANGE_SECOND_TENS)) % 256
get_minutes(d) == (get_bits(d, BIT_RANGE_MINUTE_UNITS) + 10 * get_bits(d, BIT_RANGE_MINUTE_TENS)) % 256
get_hours(d) == (get_bits(d, BIT_RANGE_HOUR_UNITS) + 10 * get_bits(d, BIT_RANGE_HOUR_TENS)) % 256

set_frame_units_user_bits(d, v) == set_bits(d, BIT_RANGE_FRAME_UNITS_USER_BITS, v)
set_frame_tens_user_bits(d, v) == set_bits(d, BIT_RANGE_FRAME_TENS_USER_BITS, v)
set_second_units_user_bits(d, v) == set_bits(d, BIT_RANGE_SECOND_UNITS_USER_BITS, v)
set_second_tens_user_bits(d, v) == set_bits(d, BIT_RANGE_SECOND_TENS_USER_BITS, v)
set_minute_units_user_bits(d, v) == set_bits(d, BIT_RANGE_MINUTE_UNITS_USER_BITS, v)
set_minute_tens_user_bits(d, v) == set_bits(d, BIT_RANGE_MINUTE_TENS_USER_BITS, v)
set_hour_units_user_bits(d, v) == set_bits(d, BIT_RANGE_HOUR_UNITS_USER_BITS, v)
set_hour_tens_user_bits(d, v) == set_bits(d, BIT_RANGE_HOUR_TENS_USER_BITS, v)

get_frame_units_user_bits(d) == get_bits(d, BIT_RANGE_FRAME_UNITS_USER_BITS)
get_frame_tens_user_bits(d) == get_bits(d, BIT_RANGE_FRAME_TENS_USER_BITS)
get_second_units_user_bits(d) == get_bits(d, BIT_RANGE_SECOND_UNITS_USER_BITS)
get_second_tens_user_bits(d) == get_bits(d, BIT_RANGE_SECOND_TENS_USER_BITS)
get_minute_units_user_bits(d) == get_bits(d, BIT_RANGE_MINUTE_UNITS_USER_BITS)
get_minute_tens_user_bits(d) == get_bits(d, BIT_RANGE_MINUTE_TENS_USER_BITS)
get_hour_units_user_bits(d) == get_bits(d, BIT_RANGE_HOUR_UNITS_USER_BITS)
get_hour_tens_user_bits(d) == get_bits(d, BIT_RANGE_HOUR_TENS_USER_BITS)

\* LtcFrameData::new_raw: the word given by its 16 hexadecimal digits, highest first
new_raw(digits) ==
    [i \in 0..(DATA_BITS - 1) |-> (digits[16 - (i \div 4)] \div Pow2(i % 4)) % 2]

\* mutant: the overflow is taken one bit too low
shift_bit_with_overflow_low(d, bit) ==
    [highest_bit |-> d[DATA_BITS - 2],
     data |-> [i \in 0..(DATA_BITS - 1) |-> IF i = 0 THEN bit ELSE d[i - 1]]]

\* LtcFrameData::shift_bit_with_overflow: data << 1, bit 0 := bit, returns old bit 63
shift_bit_with_overflow(d, bit) ==
    [highest_bit |-> d[DATA_BITS - 1],
     data |-> [i \in 0..(DATA_BITS - 1) |-> IF i = 0 THEN bit ELSE d[i - 1]]]

(***************************************************************************)
(* LtcFrame (ltc_frame/mod.rs)                                             *)
(***************************************************************************)
None == [some |-> FALSE]
Some(v) == [some |-> TRUE, val |-> v]

new_empty == [sync_word |-> 0, data |-> new_empty_data]

\* LtcFrame::new_raw
LtcFrame_new_raw(sync_word, data) == [sync_word |-> sync_word, data |-> data]

\* mutant: the sync word is not shifted, only its bit 0 is replaced
shift_bit_sync_unshifted(f, bit) ==
    LET r == shift_bit_with_overflow(f.data, bit)
    IN  [f EXCEPT !.sync_word = ((f.sync_word \div 2) * 2) + r.highest_bit,
                  !.data = r.data]

\* LtcFrame::shift_bit
shift_bit(f, bit) ==
    LET r == shift_bit_with_overflow(f.data, bit)
    IN  [f EXCEPT !.sync_word = ((f.sync_word * 2) % Pow2(SYNC_BITS)) + r.highest_bit,
                  !.data = r.data]

\* mutant: the sync word is compared with the all-ones-tail pattern 0x3FFF
data_valid_3fff(f) == f.sync_word = LTC_SYNC_WORD + 2

\* LtcFrame::data_valid
data_valid(f) == f.sync_word = LTC_SYNC_WORD

\* LtcFrame::get_data
get_data(f) == IF data_valid(f) THEN Some(f.data) ELSE None

(***************************************************************************)
(* sample_rater.rs: sample counts of a bit and a half bit.  The durations  *)
(* are (405 + 2/3) us and (530 + 2/3) us, that is 1217/3 us and 1592/3 us; *)
(* the products are truncated ("as usize") before 2 is added or taken off. *)
(***************************************************************************)
MIN_BIT_DURATION_THIRDS_US == 1217
MAX_BIT_DURATION_THIRDS_US == 1592
THIRDS_US_PER_S == 3000000

max_sample_count_for_bit(sample_rate) ==
    ((sample_rate * MAX_BIT_DURATION_THIRDS_US) \div THIRDS_US_PER_S) + 2
min_sample_count_for_bit(sample_rate) ==
    ((sample_rate * MIN_BIT_DURATION_THIRDS_US) \div THIRDS_US_PER_S) - 2
max_sample_count_for_halfbit(sample_rate) ==
    ((sample_rate * MAX_BIT_DURATION_THIRDS_US) \div (2 * THIRDS_US_PER_S)) + 2
min_sample_count_for_halfbit(sample_rate) ==
    ((sample_rate * MIN_BIT_DURATION_THIRDS_US) \div (2 * THIRDS_US_PER_S)) - 2

(***************************************************************************)
(* SampleBounds (bit_decoder/sample_bounds.rs), the amplitude calibrator.  *)
(* sample_history[1] is index 0 of the array.                              *)
(***************************************************************************)
HISTORY_LEN == 255
U8_MAX == 255

\* i128 division by 2 truncates towards zero
TruncHalf(x) == IF x >= 0 THEN x \div 2 ELSE -((-x) \div 2)

SeqMin(h) == CHOOSE m \in {h[i] : i \in 1..Len(h)} : \A i \in 1..Len(h) : m <= h[i]
SeqMax(h) == CHOOSE m \in {h[i] : i \in 1..Len(h)} : \A i \in 1..Len(h) : m >= h[i]

SampleBounds_new ==
    [valid |-> FALSE, max_value |-> 0, min_value |-> 0, threshold |-> 0,
     sample_history |-> [i \in 1..HISTORY_LEN |-> 0], received_count |-> 0]

\* mutant: the count of received samples is left as it is
SampleBounds_invalidate_keeps_count(sb) ==
    [sb EXCEPT !.threshold = 0, !.max_value = 0, !.min_value = 0, !.valid = FALSE]

\* SampleBounds::invalidate
SampleBounds_invalidate(sb) ==
    [sb EXCEPT !.threshold = 0, !.max_value = 0, !.min_value = 0,
               !.valid = FALSE, !.received_count = 0]

\* The sample type T of the model is i16; every value of it has a to_i128(), and
\* from_i128 has a result for the values of i16 only.
SAMPLE_MIN == -32768
SAMPLE_MAX == 32767
from_i128(x) == IF SAMPLE_MIN <= x /\ x <= SAMPLE_MAX THEN Some(x) ELSE None

\* mutant: a window without a difference of level is not valid
recalculate_threshold_needs_swing(sb) ==
    IF sb.min_value = sb.max_value
        THEN [sb EXCEPT !.valid = FALSE]
        ELSE [sb EXCEPT !.valid = TRUE,
                        !.threshold = TruncHalf(sb.max_value) + TruncHalf(sb.min_value)]

\* mutant: the halves are rounded down
recalculate_threshold_floor(sb) ==
    [sb EXCEPT !.valid = TRUE,
               !.threshold = (sb.max_value \div 2) + (sb.min_value \div 2)]

\* SampleBounds::recalculate_threshold
recalculate_threshold(sb) ==
    LET average_value == from_i128(TruncHalf(sb.max_value) + TruncHalf(sb.min_value))
    IN  IF ~average_value.some
            THEN [sb EXCEPT !.valid = FALSE]
            ELSE [sb EXCEPT !.valid = TRUE, !.threshold = average_value.val]

\* SampleBounds::recalculate
recalculate(sb) ==
    recalculate_threshold([sb EXCEPT !.min_value = SeqMin(sb.sample_history),
                                     !.max_value = SeqMax(sb.sample_history)])

\* mutant: the sample is stored in slot 0 without rotating the history
SampleBounds_push_sample_no_rotate(sb, sample) ==
    LET stored == [sb EXCEPT !.sample_history = [sb.sample_history EXCEPT ![1] = sample],
                             !.received_count = sb.received_count + 1]
    IN  IF stored.received_count = U8_MAX
            THEN recalculate([stored EXCEPT !.received_count = 0])
            ELSE stored

\* SampleBounds::push_sample: rotate_left(1), slot 0 := sample, count, recalculate at 255
SampleBounds_push_sample(sb, sample) ==
    LET rotated == Append(Tail(sb.sample_history), Head(sb.sample_history))
        stored == [sb EXCEPT !.sample_history = [rotated EXCEPT ![1] = sample],
                             !.received_count = sb.received_count + 1]
    IN  IF stored.received_count = U8_MAX
            THEN recalculate([stored EXCEPT !.received_count = 0])
            ELSE stored

\* mutant: a sample equal to the threshold is high
SampleBounds_is_high_tie_high(sb, sample) ==
    LET pushed == SampleBounds_push_sample(sb, sample)
    IN  [sb |-> pushed,
         result |-> IF ~pushed.valid THEN None ELSE Some(pushed.threshold <= sample)]

\* SampleBounds::is_high: the new state and None / Some(threshold < sample)
SampleBounds_is_high(sb, sample) ==
    LET pushed == SampleBounds_push_sample(sb, sample)
    IN  [sb |-> pushed,
         result |-> IF ~pushed.valid THEN None ELSE Some(pushed.threshold < sample)]

(***************************************************************************)
(* ZeroDetector (bit_decoder/zero_detector.rs)                             *)
(***************************************************************************)
ZeroDetector_new(sample_rate) ==
    [min_sample_count |-> min_sample_count_for_bit(sample_rate),
     max_sample_count |-> max_sample_count_for_bit(sample_rate),
     is_high |-> FALSE,
     sample_count |-> 0]

\* ZeroDetector::invalidate
ZeroDetector_invalidate(zd) == [zd EXCEPT !.sample_count = 0]

\* ZeroDetector::is_end_of_zero: the new state and the answer
is_end_of_zero(zd, is_high) ==
    IF zd.sample_count = 0
        THEN [zd |-> [zd EXCEPT !.is_high = is_high, !.sample_count = 1], result |-> FALSE]
        ELSE LET counted == [zd EXCEPT !.sample_count = zd.sample_count + 1]
                 \* ZeroDetector::is_state_change
                 changed == counted.is_high # is_high
                 seen == [counted EXCEPT !.is_high = is_high]
             IN  IF changed
                     THEN [zd |-> ZeroDetector_invalidate(seen),
                           result |-> /\ seen.sample_count >= seen.min_sample_count
                                      /\ seen.sample_count <= seen.max_sample_count]
                     ELSE IF seen.sample_count > seen.max_sample_count
                              THEN [zd |-> ZeroDetector_invalidate(seen), result |-> FALSE]
                              ELSE [zd |-> seen, result |-> FALSE]

(***************************************************************************)
(* BitDecoder (bit_decoder/mod.rs), the expected-event-window decoder      *)
(***************************************************************************)
BitDecoder_new(sample_rate) ==
    [max_number_of_samples_per_bit |-> max_sample_count_for_bit(sample_rate),
     min_number_of_samples_per_bit |-> min_sample_count_for_bit(sample_rate),
     max_number_of_samples_per_half_bit |-> max_sample_count_for_halfbit(sample_rate),
     min_number_of_samples_per_half_bit |-> min_sample_count_for_halfbit(sample_rate),
     sample_bounds |-> SampleBounds_new,
     zero_detector |-> ZeroDetector_new(sample_rate),
     heartbeat_in_sync |-> FALSE,
     sample_count_in_bit |-> 0,
     is_high |-> FALSE,
     has_change_in_middle_bit |-> FALSE]

\* mutant: the calibrator is left as it is
BitDecoder_invalidate_keeps_sample_bounds(bd) ==
    [bd EXCEPT !.zero_detector = ZeroDetector_invalidate(bd.zero_detector),
               !.heartbeat_in_sync = FALSE,
               !.sample_count_in_bit = 0,
               !.has_change_in_middle_bit = FALSE]

\* BitDecoder::invalidate
BitDecoder_invalidate(bd) ==
    [bd EXCEPT !.sample_bounds = SampleBounds_invalidate(bd.sample_bounds),
               !.zero_detector = ZeroDetector_invalidate(bd.zero_detector),
               !.heartbeat_in_sync = FALSE,
               !.sample_count_in_bit = 0,
               !.has_change_in_middle_bit = FALSE]

\* BitDecoder::reset_to_start_of_bit.  The statement "self.sample_count_in_bit;" has
\* no effect: only the mid-bit flag is cleared.
reset_to_start_of_bit(bd) == [bd EXCEPT !.has_change_in_middle_bit = FALSE]

\* mutant: the bit is overdue one sample later
next_expected_event_overdue_later(bd) ==
    IF bd.sample_count_in_bit < bd.min_number_of_samples_per_half_bit
        THEN "MustBeSteadyOne"
    ELSE IF bd.sample_count_in_bit <= bd.max_number_of_samples_per_half_bit
        THEN IF bd.has_change_in_middle_bit THEN "MustBeSteadyTwo" ELSE "CanChangeInMiddle"
    ELSE IF bd.sample_count_in_bit < bd.min_number_of_samples_per_bit
        THEN "MustBeSteadyTwo"
    ELSE IF bd.sample_count_in_bit <= bd.max_number_of_samples_per_bit + 1
        THEN "CanChangeInEnd"
    ELSE "Overdue"

\* mutant: the full-bit window is tested before the half-bit window is closed
next_expected_event_late(bd) ==
    IF bd.sample_count_in_bit < bd.min_number_of_samples_per_half_bit
        THEN "MustBeSteadyOne"
    ELSE IF bd.sample_count_in_bit < bd.max_number_of_samples_per_half_bit
        THEN IF bd.has_change_in_middle_bit THEN "MustBeSteadyTwo" ELSE "CanChangeInMiddle"
    ELSE IF bd.sample_count_in_bit < bd.min_number_of_samples_per_bit
        THEN "MustBeSteadyTwo"
    ELSE IF bd.sample_count_in_bit <= bd.max_number_of_samples_per_bit
        THEN "CanChangeInEnd"
    ELSE "Overdue"

\* BitDecoder::next_expected_event
next_expected_event(bd) ==
    IF bd.sample_count_in_bit < bd.min_number_of_samples_per_half_bit
        THEN "MustBeSteadyOne"
    ELSE IF bd.sample_count_in_bit <= bd.max_number_of_samples_per_half_bit
        THEN IF bd.has_change_in_middle_bit THEN "MustBeSteadyTwo" ELSE "CanChangeInMiddle"
    ELSE IF bd.sample_count_in_bit < bd.min_number_of_samples_per_bit
        THEN "MustBeSteadyTwo"
    ELSE IF bd.sample_count_in_bit <= bd.max_number_of_samples_per_bit
        THEN "CanChangeInEnd"
    ELSE "Overdue"

\* what a call that ends before the event is computed reports
NoEvent(bd, bit) ==
    [bd |-> bd, bit |-> bit, has_error |-> 0, event |-> "-", state_changed |-> FALSE,
     count |-> bd.sample_count_in_bit, flag |-> bd.has_change_in_middle_bit]

\* mutant: the end-of-bit change reports the opposite bit
resolve_event_inverted(bd, state_changed) ==
    LET event == next_expected_event(bd)
        seen == [bd |-> bd, bit |-> None, has_error |-> 0, event |-> event,
                 state_changed |-> state_changed,
                 count |-> bd.sample_count_in_bit, flag |-> bd.has_change_in_middle_bit]
    IN  CASE event = "MustBeSteadyOne" ->
                IF state_changed
                    THEN [seen EXCEPT !.bd = BitDecoder_invalidate(bd), !.has_error = 1]
                    ELSE seen
          [] event = "MustBeSteadyTwo" ->
                IF state_changed
                    THEN [seen EXCEPT !.bd = BitDecoder_invalidate(bd), !.has_error = 2]
                    ELSE seen
          [] event = "CanChangeInMiddle" ->
                IF state_changed
                    THEN [seen EXCEPT !.bd.has_change_in_middle_bit = TRUE]
                    ELSE seen
          [] event = "CanChangeInEnd" ->
                IF state_changed
                    THEN [seen EXCEPT !.bd = reset_to_start_of_bit(bd),
                                      !.bit = Some(~bd.has_change_in_middle_bit)]
                    ELSE seen
          [] event = "Overdue" ->
                [seen EXCEPT !.bd = BitDecoder_invalidate(bd), !.has_error = 3]

\* BitDecoder::handle_received_level, the match on next_expected_event()
resolve_event(bd, state_changed) ==
    LET event == next_expected_event(bd)
        seen == [bd |-> bd, bit |-> None, has_error |-> 0, event |-> event,
                 state_changed |-> state_changed,
                 count |-> bd.sample_count_in_bit, flag |-> bd.has_change_in_middle_bit]
    IN  CASE event = "MustBeSteadyOne" ->
                IF state_changed
                    THEN [seen EXCEPT !.bd = BitDecoder_invalidate(bd), !.has_error = 1]
                    ELSE seen
          [] event = "MustBeSteadyTwo" ->
                IF state_changed
                    THEN [seen EXCEPT !.bd = BitDecoder_invalidate(bd), !.has_error = 2]
                    ELSE seen
          [] event = "CanChangeInMiddle" ->
                IF state_changed
                    THEN [seen EXCEPT !.bd.has_change_in_middle_bit = TRUE]
                    ELSE seen
          [] event = "CanChangeInEnd" ->
                IF state_changed
                    THEN [seen EXCEPT !.bd = reset_to_start_of_bit(bd),
                                      !.bit = Some(bd.has_change_in_middle_bit)]
                    ELSE seen
          [] event = "Overdue" ->
                [seen EXCEPT !.bd = BitDecoder_invalidate(bd), !.has_error = 3]

\* mutant: the sample that acquires lock is not counted into the bit
handle_received_level_lock_uncounted(bd, is_high) ==
    LET zr == is_end_of_zero(bd.zero_detector, is_high)
        searched == [bd EXCEPT !.zero_detector = zr.zd]
        locked == [reset_to_start_of_bit([searched EXCEPT !.heartbeat_in_sync = TRUE])
                      EXCEPT !.is_high = is_high]
        counted == [bd EXCEPT !.sample_count_in_bit = bd.sample_count_in_bit + 1]
        state_changed == counted.is_high # is_high
        tracked == [counted EXCEPT !.is_high = is_high]
    IN  IF ~bd.heartbeat_in_sync
            THEN NoEvent(IF zr.result THEN locked ELSE searched, None)
            ELSE resolve_event(tracked, state_changed)

\* BitDecoder::handle_received_level: the new state, the bit (None / Some) and the
\* error code, with the event, the counter and the flag the match was decided on
handle_received_level(bd, is_high) ==
    LET zr == is_end_of_zero(bd.zero_detector, is_high)
        searched == [bd EXCEPT !.zero_detector = zr.zd]
        locked == [reset_to_start_of_bit([searched EXCEPT !.heartbeat_in_sync = TRUE])
                      EXCEPT !.is_high = is_high]
        synced == IF bd.heartbeat_in_sync THEN bd ELSE locked
        counted == [synced EXCEPT !.sample_count_in_bit = synced.sample_count_in_bit + 1]
        \* BitDecoder::is_state_change
        state_changed == counted.is_high # is_high
        tracked == [counted EXCEPT !.is_high = is_high]
    IN  IF ~bd.heartbeat_in_sync /\ ~zr.result
            THEN NoEvent(searched, None)
            ELSE resolve_event(tracked, state_changed)

\* BitDecoder::push_sample (the images only record the trace for plotting)
BitDecoder_push_sample(bd, sample) ==
    LET level == SampleBounds_is_high(bd.sample_bounds, sample)
        fed == [bd EXCEPT !.sample_bounds = level.sb]
    IN  IF level.result.some
            THEN handle_received_level(fed, level.result.val)
            ELSE NoEvent(fed, None)

(***************************************************************************)
(* The bit streams handed to LtcFrame.                                     *)
(*                                                                         *)
(* A chunk is a run of bits: a 64 bit payload sent most significant bit    *)
(* first ("msb", the order in which the data register ends up equal to the *)
(* payload word) or in SMPTE transmission order ("smpte", payload bit 0    *)
(* first), the 16 bit sync word in transmission order, the last 14 bits of *)
(* the sync word, or a single bit.                                         *)
(***************************************************************************)
\* the sync word as it is transmitted: 0011 1111 1111 1101
SyncStream == [k \in 1..SYNC_BITS |-> (LTC_SYNC_WORD \div Pow2(SYNC_BITS - k)) % 2]

\* timecodes of the payloads: tests::test_setters and the first frame of the fixtures
Timecode(id) ==
    CASE id = "tc_a" -> [hours |-> 5, minutes |-> 38, seconds |-> 14, frames |-> 29]
      [] id = "tc_b" -> [hours |-> 0, minutes |-> 10, seconds |-> 0, frames |-> 1]

\* a payload whose 16 most significant bits are the sync pattern
StrayPayload ==
    [i \in 0..(DATA_BITS - 1) |->
        IF i >= DATA_BITS - SYNC_BITS THEN SyncStream[DATA_BITS - i] ELSE 0]

\* a payload whose 14 most significant bits are the sync pattern without its two leading zeros
TailPayload ==
    [i \in 0..(DATA_BITS - 1) |->
        IF i >= DATA_BITS - (SYNC_BITS - 2) THEN SyncStream[DATA_BITS - i + 2] ELSE 0]

PayloadIds == {"tc_a", "tc_b", "stray", "tail"}
TimecodeIds == {"tc_a", "tc_b"}

PayloadData(id) ==
    CASE id = "stray" -> StrayPayload
      [] id = "tail" -> TailPayload
      [] OTHER -> LET t == Timecode(id) IN new_with_time(t.hours, t.minutes, t.seconds, t.frames)

\* the data register read as a stream, bit 63 first
DataAsStream(d) == [k \in 1..DATA_BITS |-> d[DATA_BITS - k]]

ChunkBits(c) ==
    CASE c.kind = "payload" /\ c.order = "msb" -> DataAsStream(PayloadData(c.id))
      [] c.kind = "payload" /\ c.order = "smpte" -> [k \in 1..DATA_BITS |-> PayloadData(c.id)[k - 1]]
      [] c.kind = "sync" -> SyncStream
      [] c.kind = "tail" -> SubSeq(SyncStream, 3, SYNC_BITS)
      [] c.kind = "bit0" -> <<0>>
      [] c.kind = "bit1" -> <<1>>

PayloadChunk(id, order) == [kind |-> "payload", id |-> id, order |-> order]
PlainChunk(kind) == [kind |-> kind, id |-> "-", order |-> "-"]

(***************************************************************************)
(* Threshold-cross bit decoder (ltc_decoder/bit_decoder.rs): the lengths   *)
(* of the runs between threshold crosses are classified as half bits and   *)
(* bits.  Its SampleBounds is the calibrator modelled above.               *)
(***************************************************************************)
ThresholdCrossState_new == [valid |-> FALSE, unknown_size |-> 0, half_size |-> 0, full_size |-> 0]

\* mutant: the sizes are cleared but the state stays valid
ThresholdCrossState_invalidate_keeps_valid(st) ==
    [st EXCEPT !.unknown_size = 0, !.half_size = 0, !.full_size = 0]

\* ThresholdCrossState::invalidate
ThresholdCrossState_invalidate(st) ==
    [st EXCEPT !.unknown_size = 0, !.valid = FALSE, !.half_size = 0, !.full_size = 0]

\* ThresholdCrossState::is_approx_half
is_approx_half(check, comp) == check > comp \div 3 /\ check < (comp * 2) \div 3

\* ThresholdCrossState::is_approx_double
is_approx_double(check, comp) == is_approx_half(comp, check)

\* ThresholdCrossState::is_approx_same
is_approx_same(check, comp) == check >= (comp * 4) \div 5 /\ check <= (comp * 5) \div 4

\* mutant: while valid the size is compared with half_size first
cross_from_cross_size_short_first(st, size) ==
    IF ~st.valid
        THEN IF st.unknown_size = 0
                 THEN [st |-> [st EXCEPT !.unknown_size = size], cross |-> "None"]
             ELSE IF is_approx_same(st.unknown_size, size)
                 THEN [st |-> st, cross |-> "None"]
             ELSE IF is_approx_half(size, st.unknown_size)
                 THEN [st |-> [st EXCEPT !.half_size = size, !.full_size = st.unknown_size,
                                         !.valid = TRUE],
                       cross |-> "Short"]
             ELSE IF is_approx_double(size, st.unknown_size)
                 THEN [st |-> [st EXCEPT !.half_size = st.unknown_size, !.full_size = size,
                                         !.valid = TRUE],
                       cross |-> "Long"]
             ELSE [st |-> st, cross |-> "Invalid"]
    ELSE IF is_approx_same(size, st.half_size) THEN [st |-> st, cross |-> "Short"]
    ELSE IF is_approx_same(size, st.full_size) THEN [st |-> st, cross |-> "Long"]
    ELSE [st |-> st, cross |-> "Invalid"]

\* ThresholdCrossState::cross_from_cross_size: the new state and the kind of cross
cross_from_cross_size(st, size) ==
    IF ~st.valid
        THEN IF st.unknown_size = 0
                 THEN [st |-> [st EXCEPT !.unknown_size = size], cross |-> "None"]
             ELSE IF is_approx_same(st.unknown_size, size)
                 THEN [st |-> st, cross |-> "None"]
             ELSE IF is_approx_half(size, st.unknown_size)
                 THEN [st |-> [st EXCEPT !.half_size = size, !.full_size = st.unknown_size,
                                         !.valid = TRUE],
                       cross |-> "Short"]
             ELSE IF is_approx_double(size, st.unknown_size)
                 THEN [st |-> [st EXCEPT !.half_size = st.unknown_size, !.full_size = size,
                                         !.valid = TRUE],
                       cross |-> "Long"]
             ELSE [st |-> st, cross |-> "Invalid"]
    ELSE IF is_approx_same(size, st.full_size) THEN [st |-> st, cross |-> "Long"]
    ELSE IF is_approx_same(size, st.half_size) THEN [st |-> st, cross |-> "Short"]
    ELSE [st |-> st, cross |-> "Invalid"]

ThresholdCrossDetector_new ==
    [sample_bounds |-> SampleBounds_new, counting |-> FALSE, is_high |-> None, count |-> 0,
     state |-> ThresholdCrossState_new]

\* mutant: the calibrator is left as it is
ThresholdCrossDetector_invalidate_keeps_sample_bounds(tcd) ==
    [tcd EXCEPT !.counting = FALSE, !.is_high = None, !.count = 0,
                !.state = ThresholdCrossState_invalidate(tcd.state)]

\* ThresholdCrossDetector::invalidate
ThresholdCrossDetector_invalidate(tcd) ==
    [tcd EXCEPT !.counting = FALSE, !.is_high = None, !.count = 0,
                !.sample_bounds = SampleBounds_invalidate(tcd.sample_bounds),
                !.state = ThresholdCrossState_invalidate(tcd.state)]

\* ThresholdCrossDetector::crosses after the calibrator has classified the sample:
\* level is what SampleBounds::is_high returned
cross_of_level(tcd, level) ==
    LET pushed == [tcd EXCEPT !.sample_bounds = level.sb]
    IN  IF ~level.result.some THEN [tcd |-> pushed, cross |-> "None"]
        ELSE IF ~tcd.is_high.some
            THEN [tcd |-> [pushed EXCEPT !.is_high = level.result], cross |-> "None"]
        ELSE LET changed == tcd.is_high.val # level.result.val
                 tracked == IF changed THEN [pushed EXCEPT !.is_high = level.result] ELSE pushed
             IN  IF ~tcd.counting
                     THEN [tcd |-> IF changed
                                       THEN [tracked EXCEPT !.counting = TRUE, !.count = 0]
                                       ELSE tracked,
                           cross |-> "None"]
                 ELSE IF changed
                     THEN LET r == cross_from_cross_size(tracked.state, tcd.count + 1)
                          IN  [tcd |-> [tracked EXCEPT !.count = 0, !.state = r.st],
                               cross |-> r.cross]
                 ELSE [tcd |-> [tracked EXCEPT !.count = tcd.count + 1], cross |-> "None"]

\* ThresholdCrossDetector::crosses: the new state and the kind of cross
crosses(tcd, sample) ==
    cross_of_level(tcd, SampleBounds_is_high(tcd.sample_bounds, sample))

(***************************************************************************)
(* ThresholdCrossDetector of bit_decoder/threshold_cross_detector.rs, the   *)
(* detector of the expected-event-window tree.  Its is_approx_* functions   *)
(* are the ones above.                                                      *)
(***************************************************************************)
\* ThresholdCrossState::invalidate: unknown_size is kept
Detector_state_invalidate(st) == [st EXCEPT !.valid = FALSE, !.half_size = 0, !.full_size = 0]

\* ThresholdCrossState::from_cross_size: the new state and the kind of cross
from_cross_size(st, size) ==
    IF ~st.valid
        THEN IF st.unknown_size = 0
                 THEN [st |-> [st EXCEPT !.unknown_size = size], cross |-> "None"]
             ELSE IF is_approx_same(st.unknown_size, size)
                 THEN [st |-> st, cross |-> "None"]
             ELSE IF is_approx_half(size, st.unknown_size)
                 THEN [st |-> [st EXCEPT !.half_size = size, !.full_size = st.unknown_size,
                                         !.valid = TRUE],
                       cross |-> "Short"]
             ELSE IF is_approx_double(size, st.unknown_size)
                 THEN [st |-> [st EXCEPT !.half_size = st.unknown_size, !.full_size = size,
                                         !.valid = TRUE],
                       cross |-> "Long"]
             ELSE [st |-> st, cross |-> "Invalid"]
    ELSE IF is_approx_same(size, st.full_size) THEN [st |-> st, cross |-> "Long"]
    ELSE IF is_approx_same(size, st.half_size) THEN [st |-> st, cross |-> "Short"]
    ELSE [st |-> st, cross |-> "Invalid"]

\* ThresholdCrossDetector::new
Detector_new ==
    [sample_bounds |-> SampleBounds_new, counting |-> FALSE, is_high |-> None, count |-> 0,
     state |-> Detector_state_invalidate(ThresholdCrossState_new)]

\* ThresholdCrossDetector::invalidate
Detector_invalidate(tcd) ==
    [tcd EXCEPT !.counting = FALSE, !.is_high = None, !.count = 0,
                !.sample_bounds = SampleBounds_invalidate(tcd.sample_bounds),
                !.state = Detector_state_invalidate(tcd.state)]

\* ThresholdCrossDetector::crosses after the calibrator has classified the sample:
\* level is what SampleBounds::is_high returned
Detector_cross_of_level(tcd, level) ==
    LET pushed == [tcd EXCEPT !.sample_bounds = level.sb]
    IN  IF ~level.result.some
            THEN [tcd |-> Detector_invalidate(pushed), cross |-> "None"]
        ELSE IF ~tcd.is_high.some
            THEN [tcd |-> [pushed EXCEPT !.is_high = level.result], cross |-> "None"]
        ELSE LET changed == tcd.is_high.val # level.result.val
                 tracked == IF changed THEN [pushed EXCEPT !.is_high = level.result] ELSE pushed
             IN  IF ~tcd.counting
                     THEN [tcd |-> IF changed
                                       THEN [tracked EXCEPT !.counting = TRUE, !.count = 0]
                                       ELSE tracked,
                           cross |-> "None"]
                 ELSE IF changed
                     THEN LET r == from_cross_size(tracked.state, tcd.count + 1)
                          IN  [tcd |-> [tracked EXCEPT !.count = 0, !.state = r.st],
                               cross |-> r.cross]
                 ELSE [tcd |-> [tracked EXCEPT !.count = tcd.count + 1], cross |-> "None"]

\* ThresholdCrossDetector::crosses: the new state and the kind of cross
Detector_crosses(tcd, sample) ==
    Detector_cross_of_level(tcd, SampleBounds_is_high(tcd.sample_bounds, sample))

CrossBitDecoder_new ==
    [threshold_cross_detector |-> ThresholdCrossDetector_new, state |-> "OutOfSync"]

\* BitDecoder::invalidate (bit_decoder.rs)
CrossBitDecoder_invalidate(bd) ==
    [bd EXCEPT !.state = "OutOfSync",
               !.threshold_cross_detector =
                    ThresholdCrossDetector_invalidate(bd.threshold_cross_detector)]

\* mutant: a Long cross after a single Short cross is taken as a zero
bit_of_cross_long_forgives(bd, c) ==
    LET fed == [bd EXCEPT !.threshold_cross_detector = c.tcd]
        half_bit ==
            CASE bd.state = "OutOfSync" -> [bd |-> fed, bit |-> "None"]
              [] bd.state = "BitCompleted" ->
                    [bd |-> [fed EXCEPT !.state = "HalfBitReceived"], bit |-> "None"]
              [] bd.state = "HalfBitReceived" ->
                    [bd |-> [fed EXCEPT !.state = "BitCompleted"], bit |-> "True"]
        full_bit == [bd |-> [fed EXCEPT !.state = "BitCompleted"], bit |-> "False"]
        r == CASE c.cross = "None" -> [bd |-> fed, bit |-> "None"]
               [] c.cross = "Invalid" -> [bd |-> fed, bit |-> "Invalid"]
               [] c.cross = "Short" -> half_bit
               [] c.cross = "Long" -> full_bit
    IN  [bd |-> r.bd, bit |-> r.bit, cross |-> c.cross]

\* BitDecoder::get_bit after the cross detector has seen the sample: c is what
\* ThresholdCrossDetector::crosses returned.  The new state and the BitVal, with the
\* cross the match was decided on.
bit_of_cross(bd, c) ==
    LET fed == [bd EXCEPT !.threshold_cross_detector = c.tcd]
        half_bit ==
            CASE bd.state = "OutOfSync" -> [bd |-> fed, bit |-> "None"]
              [] bd.state = "BitCompleted" ->
                    [bd |-> [fed EXCEPT !.state = "HalfBitReceived"], bit |-> "None"]
              [] bd.state = "HalfBitReceived" ->
                    [bd |-> [fed EXCEPT !.state = "BitCompleted"], bit |-> "True"]
        full_bit ==
            CASE bd.state = "OutOfSync" ->
                    [bd |-> [fed EXCEPT !.state = "BitCompleted"], bit |-> "False"]
              [] bd.state = "BitCompleted" -> [bd |-> fed, bit |-> "False"]
              [] bd.state = "HalfBitReceived" -> [bd |-> fed, bit |-> "Invalid"]
        r == CASE c.cross = "None" -> [bd |-> fed, bit |-> "None"]
               [] c.cross = "Invalid" -> [bd |-> fed, bit |-> "Invalid"]
               [] c.cross = "Short" -> half_bit
               [] c.cross = "Long" -> full_bit
    IN  [bd |-> r.bd, bit |-> r.bit, cross |-> c.cross]

\* BitDecoder::get_bit (bit_decoder.rs): the new state and the BitVal
get_bit(bd, sample) == bit_of_cross(bd, crosses(bd.threshold_cross_detector, sample))

(***************************************************************************)
(* TimecodeFrame and FramesPerSecond (src/lib.rs).  Durations are in units *)
(* of 10^-8 s, the resolution of the f32 constants; a duration is given as *)
(* a sample count at a sample rate.                                        *)
(***************************************************************************)
DURATION_THIRTY_FULL_FRAME_IN_S == 3333333
DURATION_TWENTY_FIVE_FULL_FRAME_IN_S == 4000000
DURATION_TWENTY_FOUR_FULL_FRAME_IN_S == 4166666

\* full frame duration * 64.0 / 80.0
WithoutSyncWord(full) == (full * 64) \div 80

\* mutant: the window is 3 % to either side
DurationBound_three_percent(without) == <<(without * 97) \div 100, (without * 103) \div 100>>

\* mutant: the window is 4 % to either side
DurationBound_wide(without) == <<(without * 96) \div 100, (without * 104) \div 100>>

\* (duration * 0.98, duration * 1.02)
DurationBound(without) == <<(without * 98) \div 100, (without * 102) \div 100>>

\* sign of sample_count / sampling_rate - bound, computed without leaving 32 bits:
\* sample_count = q * r + rem with r = sampling_rate / 100
DurationCompare(sample_count, sampling_rate, bound) ==
    LET r == sampling_rate \div 100
        diff == (sample_count \div r) * 1000000 - bound
        exact == r * diff + (sample_count % r) * 1000000
    IN  IF diff >= 1000000 THEN 1
        ELSE IF diff <= -1000000 THEN -1
        ELSE IF exact > 0 THEN 1 ELSE IF exact < 0 THEN -1 ELSE 0

\* FramesPerSecond::is_in_duration_bounds for sample_count / sampling_rate seconds
is_in_duration_bounds(sample_count, sampling_rate, bounds) ==
    /\ DurationCompare(sample_count, sampling_rate, bounds[1]) > 0
    /\ DurationCompare(sample_count, sampling_rate, bounds[2]) < 0

\* FramesPerSecond::from_frame_duration_without_syncword_in_s
from_frame_duration_without_syncword_in_s(sample_count, sampling_rate) ==
    IF is_in_duration_bounds(sample_count, sampling_rate,
            DurationBound(WithoutSyncWord(DURATION_TWENTY_FOUR_FULL_FRAME_IN_S)))
        THEN "TwentyFour"
    ELSE IF is_in_duration_bounds(sample_count, sampling_rate,
            DurationBound(WithoutSyncWord(DURATION_TWENTY_FIVE_FULL_FRAME_IN_S)))
        THEN "TwentyFive"
    ELSE IF is_in_duration_bounds(sample_count, sampling_rate,
            DurationBound(WithoutSyncWord(DURATION_THIRTY_FULL_FRAME_IN_S)))
        THEN "Thirty"
    ELSE "Unknown"

\* TimecodeFrame::new
TimecodeFrame_new(hours, minutes, seconds, frames, frames_per_second) ==
    [hours |-> hours, minutes |-> minutes, seconds |-> seconds, frames |-> frames,
     frames_per_second |-> frames_per_second]

\* TimecodeFrame::new_from_duration
new_from_duration(hours, minutes, seconds, frames, sample_count, sampling_rate) ==
    TimecodeFrame_new(hours, minutes, seconds, frames,
        from_frame_duration_without_syncword_in_s(sample_count, sampling_rate))

\* frames of one second under a frame rate, 0 for Unknown
FramesOf(frames_per_second) ==
    CASE frames_per_second = "TwentyFour" -> 24
      [] frames_per_second = "TwentyFive" -> 25
      [] frames_per_second = "Thirty" -> 30
      [] OTHER -> 0

\* U8_LIMIT: the fields of TimecodeFrame are u8
U8_LIMIT == 256

\* TimecodeFrame::add_frame: one of its `+= 1` is on a field that holds u8::MAX.  A
\* build with overflow checks panics there, one without wraps the field to 0.
add_frame_overflows(tc) ==
    LET f1 == tc.frames + 1
        roll == FramesOf(tc.frames_per_second) > 0 /\ f1 % U8_LIMIT >= FramesOf(tc.frames_per_second)
        s1 == IF roll THEN tc.seconds + 1 ELSE tc.seconds
        m1 == IF s1 % U8_LIMIT > 59 THEN tc.minutes + 1 ELSE tc.minutes
        h1 == IF m1 % U8_LIMIT > 59 THEN tc.hours + 1 ELSE tc.hours
    IN  f1 >= U8_LIMIT \/ s1 >= U8_LIMIT \/ m1 >= U8_LIMIT \/ h1 >= U8_LIMIT

\* mutant: the hours start again at 0 after 23
add_frame_wraps_day(tc) ==
    LET f1 == tc.frames + 1
        roll == FramesOf(tc.frames_per_second) > 0 /\ f1 >= FramesOf(tc.frames_per_second)
        s1 == IF roll THEN tc.seconds + 1 ELSE tc.seconds
        m1 == IF s1 > 59 THEN tc.minutes + 1 ELSE tc.minutes
    IN  [tc EXCEPT !.frames = IF roll THEN 0 ELSE f1,
                   !.seconds = IF s1 > 59 THEN 0 ELSE s1,
                   !.minutes = IF m1 > 59 THEN 0 ELSE m1,
                   !.hours = IF m1 > 59 THEN (tc.hours + 1) % 24 ELSE tc.hours]

\* TimecodeFrame::add_frame.  The fields are u8 and every addition is modulo 2^8, as
\* in a build without overflow checks.
add_frame(tc) ==
    LET f1 == (tc.frames + 1) % U8_LIMIT
        roll == FramesOf(tc.frames_per_second) > 0 /\ f1 >= FramesOf(tc.frames_per_second)
        s1 == IF roll THEN (tc.seconds + 1) % U8_LIMIT ELSE tc.seconds
        m1 == IF s1 > 59 THEN (tc.minutes + 1) % U8_LIMIT ELSE tc.minutes
    IN  [tc EXCEPT !.frames = IF roll THEN 0 ELSE f1,
                   !.seconds = IF s1 > 59 THEN 0 ELSE s1,
                   !.minutes = IF m1 > 59 THEN 0 ELSE m1,
                   !.hours = IF m1 > 59 THEN (tc.hours + 1) % U8_LIMIT ELSE tc.hours]

(***************************************************************************)
(* LtcFrame with the sample counter (src/ltc_frame/mod.rs) and the parts   *)
(* of its LtcFrameData that are described by the specification only.       *)
(***************************************************************************)
\* LtcFrameData: the register shows the sync word in its 16 lowest bits, so the next
\* bit is the first payload bit after a sync word
next_bit_is_start_of_frame(d) == SumBits(d, 0, SYNC_BITS) = LTC_SYNC_WORD

\* LtcFrameData::invalidate: the register is zeroed
LtcFrameData_invalidate(d) == new_empty_data

\* LtcFrameData::make_ltc_frame: the digits of the payload and the classified duration
make_ltc_frame(d, sample_count, sampling_rate) ==
    new_from_duration(get_hours(d), get_minutes(d), get_seconds(d), get_frames(d),
                      sample_count, sampling_rate)

\* LtcFrame::new_empty
LtcFrame_new_empty ==
    [sync_word |-> 0, data |-> new_empty_data, frame_data_sample_count |-> 0]

\* LtcFrame::invalidate
LtcFrame_invalidate(f) ==
    [f EXCEPT !.data = LtcFrameData_invalidate(f.data), !.sync_word = 0]

\* mutant: the counter is never reset
sample_received_counts_on(f) ==
    [f EXCEPT !.frame_data_sample_count = f.frame_data_sample_count + 1]

\* LtcFrame::sample_received
sample_received(f) ==
    IF next_bit_is_start_of_frame(f.data)
        THEN [f EXCEPT !.frame_data_sample_count = 0]
        ELSE [f EXCEPT !.frame_data_sample_count = f.frame_data_sample_count + 1]

\* LtcFrame::get_data: the payload and the sample count
get_data_and_count(f) ==
    IF data_valid(f)
        THEN Some([data |-> f.data, samples_for_frame |-> f.frame_data_sample_count])
        ELSE None

(***************************************************************************)
(* LtcDecoder (src/ltc_decoder/mod.rs): sample -> bit -> frame             *)
(***************************************************************************)
LtcDecoder_new(sampling_rate) ==
    [ltc_frame |-> LtcFrame_new_empty, bit_decoder |-> CrossBitDecoder_new,
     sampling_rate |-> sampling_rate]

\* mutant: only the bit decoder is invalidated
LtcDecoder_invalidate_bit_decoder_only(dec) ==
    [dec EXCEPT !.bit_decoder = CrossBitDecoder_invalidate(dec.bit_decoder)]

\* LtcDecoder::invalidate
LtcDecoder_invalidate(dec) ==
    [dec EXCEPT !.ltc_frame = LtcFrame_invalidate(dec.ltc_frame),
                !.bit_decoder = CrossBitDecoder_invalidate(dec.bit_decoder)]

\* LtcDecoder::get_timecode_frame after sample_received (counted is the frame then)
\* and BitDecoder::get_bit (b is what it returned)
frame_of_bit(dec, counted, b) ==
    LET fed == [dec EXCEPT !.ltc_frame = counted, !.bit_decoder = b.bd]
    IN  CASE b.bit = "None" -> [dec |-> fed, bit |-> b.bit, cross |-> b.cross, frame |-> None]
          [] b.bit = "Invalid" ->
                [dec |-> LtcDecoder_invalidate(fed), bit |-> b.bit, cross |-> b.cross,
                 frame |-> None]
          [] OTHER ->
                LET shifted == shift_bit(counted, IF b.bit = "True" THEN 1 ELSE 0)
                    got_data == get_data_and_count(shifted)
                IN  [dec |-> [fed EXCEPT !.ltc_frame = shifted],
                     bit |-> b.bit,
                     cross |-> b.cross,
                     frame |-> IF got_data.some
                                   THEN Some(make_ltc_frame(got_data.val.data,
                                                 got_data.val.samples_for_frame,
                                                 dec.sampling_rate))
                                   ELSE None]

\* LtcDecoder::get_timecode_frame: the new state, the BitVal and the returned frame
get_timecode_frame(dec, sample) ==
    frame_of_bit(dec, sample_received(dec.ltc_frame), get_bit(dec.bit_decoder, sample))

(***************************************************************************)
(* The LTC source of the pipeline: frames of 80 bits in transmission order *)
(* (payload bit 0 first, then the sync word), biphase-mark coded at the    *)
(* frame rate, sampled at the sample rate; the timecode counts up from a   *)
(* start timecode as in the fixtures of tests::test_timecode_file.         *)
(***************************************************************************)
FRAME_BITS == DATA_BITS + SYNC_BITS

\* frame rate, sample rate and start timecode of the recordings
Recordings ==
    {[fps |-> 25, rate |-> 44100, start |-> [hours |-> 0, minutes |-> 10, seconds |-> 0, frames |-> 0]],
     [fps |-> 30, rate |-> 44100, start |-> [hours |-> 0, minutes |-> 50, seconds |-> 0, frames |-> 0]],
     [fps |-> 25, rate |-> 48000, start |-> [hours |-> 0, minutes |-> 59, seconds |-> 59, frames |-> 23]]}

\* the two levels of an 8 bit recording
TapeSample(level) == IF level = 1 THEN 218 ELSE 38

\* the timecode of the next frame of the recording
NextTimecode(tc, fps) ==
    LET f1 == (tc.frames + 1) % fps
        s1 == IF f1 = 0 THEN (tc.seconds + 1) % 60 ELSE tc.seconds
        m1 == IF f1 = 0 /\ s1 = 0 THEN (tc.minutes + 1) % 60 ELSE tc.minutes
        h1 == IF f1 = 0 /\ s1 = 0 /\ m1 = 0 THEN (tc.hours + 1) % 24 ELSE tc.hours
    IN  [hours |-> h1, minutes |-> m1, seconds |-> s1, frames |-> f1]

\* bit pos (0..79) of the frame with timecode tc, as transmitted
FrameBit(tc, pos) ==
    IF pos < DATA_BITS
        THEN new_with_time(tc.hours, tc.minutes, tc.seconds, tc.frames)[pos]
        ELSE SyncStream[pos - DATA_BITS + 1]

\* index of the first sample after the k-th half-bit boundary
Boundary(k, fps, rate) == (k * rate) \div (2 * FRAME_BITS * fps)

NoFrames ==
    [count |-> 0, prev |-> None, last |-> None, bit |-> "None", frame |-> None,
     invalidated |-> FALSE, cross |-> "None", was_state |-> "OutOfSync",
     prev_cross |-> "None", since_reset |-> 0, samples_since |-> 0]

LtcStart(rec) ==
    /\ decoder = LtcDecoder_new(rec.rate)
    /\ tape = [fps |-> rec.fps, rate |-> rec.rate, tc |-> rec.start, pos |-> 0, half |-> 0,
               k |-> 0, level |-> 0, run_left |-> 0, frames_sent |-> 0, glitched |-> FALSE]
    /\ returned = NoFrames

\* the pipeline is not used
LtcIdle == LtcStart(CHOOSE rec \in Recordings : rec.fps = 25 /\ rec.rate = 44100)

(***************************************************************************)
(* Sample rates of the sources and the samples of a bit and of half a bit  *)
(***************************************************************************)
SampleRates == {44100, 48000}
\* bits per second of 25 fps timecode: 80 bits a frame
BitsPerSecond == 25 * 80

FullRun(rate) == rate \div BitsPerSecond
HalfRun(rate) == FullRun(rate) \div 2

(***************************************************************************)
(* The samples pushed into the calibrator on its own: a constant signal    *)
(* (the base) in which a few pushes may carry another value, as in         *)
(* tests::test_recalculate, and the points at which invalidate is called.  *)
(***************************************************************************)
MaxPushes == 520

\* the constant part of the signal: 0, 1 and the ends of the sample type
Bases == {0, 1, SAMPLE_MIN, SAMPLE_MAX}
\* the values of tests::test_recalculate and an odd positive one
Values == {-1, 3, 234}
\* the pushes (counted from 1) that may carry a value
SpecialAt == {1, 102, 255, 300}
\* the numbers of pushes after which invalidate may be called
InvalidateAt == {130, 260}

CalStart(base) ==
    /\ sample_bounds = SampleBounds_new
    /\ feed = [base |-> base, n |-> 0, since |-> 0, window |-> [i \in 1..HISTORY_LEN |-> 0]]
    /\ answer = [op |-> "new", sample |-> 0, result |-> None, was_valid |-> FALSE]

\* the calibrator on its own is not used
CalIdle == CalStart(0)

(***************************************************************************)
(* The levels handed to the zero detector on its own: runs of equal levels *)
(* whose lengths lie around the window of a bit.                           *)
(***************************************************************************)
MaxZeroRuns == 3

ZeroRunLengths(rate) ==
    {min_sample_count_for_bit(rate) - 2,
     min_sample_count_for_bit(rate) - 1,
     min_sample_count_for_bit(rate),
     FullRun(rate),
     max_sample_count_for_bit(rate),
     max_sample_count_for_bit(rate) + 1,
     max_sample_count_for_bit(rate) + min_sample_count_for_bit(rate)}

ZeroStart(rate) ==
    /\ zero_detector = ZeroDetector_new(rate)
    /\ levels = [rate |-> rate, level |-> FALSE, run_left |-> 0, runs |-> 0, run |-> 0,
                 ended |-> 0, changed |-> FALSE, result |-> FALSE,
                 failure |-> "none", pending |-> FALSE, armed |-> FALSE,
                 was_armed |-> FALSE]

\* the zero detector on its own is not used
ZeroIdle == ZeroStart(44100)

\* The values handed to the field codec.  Times are (hours, minutes, seconds, frames):
\* every value of [0, 99] in all four fields, and the times of the tests.
CodecTimes ==
    {<<v, v, v, v>> : v \in 0..99}
        \cup {<<5, 38, 14, 29>>, <<23, 59, 59, 29>>, <<39, 79, 79, 39>>,
              <<99, 0, 99, 0>>, <<0, 99, 0, 99>>}
\* user nibbles, from the frame units to the hour tens
new_nibbles(a, b) == <<a, b, a, b, a, b, a, b>>
CodecNibbles ==
    {new_nibbles(0, 0), new_nibbles(15, 15), new_nibbles(10, 5), <<1, 3, 5, 7, 9, 11, 13, 15>>}
AllOnes == [i \in 0..(DATA_BITS - 1) |-> 1]
StartWords == {new_empty_data, AllOnes}
\* the two words of tests::test_get_bits, all ones, and the reserved bits alone
RawWords ==
    {new_raw(<<15, 14, 13, 12, 11, 10, 9, 8, 7, 6, 5, 4, 3, 2, 1, 0>>),
     new_raw(<<0, 0, 0, 5, 0, 3, 0, 8, 0, 1, 0, 4, 0, 14, 0, 9>>),
     AllOnes,
     new_raw(<<0, 12, 0, 0, 0, 8, 0, 0, 0, 8, 0, 0, 0, 12, 0, 0>>)}

\* what the twelve getters return for a word
Decoded(d) ==
    [hours |-> get_hours(d), minutes |-> get_minutes(d),
     seconds |-> get_seconds(d), frames |-> get_frames(d),
     user |-> <<get_frame_units_user_bits(d), get_frame_tens_user_bits(d),
                get_second_units_user_bits(d), get_second_tens_user_bits(d),
                get_minute_units_user_bits(d), get_minute_tens_user_bits(d),
                get_hour_units_user_bits(d), get_hour_tens_user_bits(d)>>]

\* The values handed to single setter calls: one that fits every field, 29 (too wide for
\* a nibble), 40 (tens too wide for frames and hours), 99 and the top of a u8.
MaxSets == 2
SetterValues == {7, 29, 40, 99, 255}
SetterCount == 12

CodecStart(mode, time, nibbles, order, word) ==
    /\ frame_data = word
    /\ codec = [mode |-> mode, time |-> time, nibbles |-> nibbles, order |-> order,
                time_set |-> 0, user_set |-> 0, decoded |-> None,
                sets |-> 0, setter |-> 0, value |-> 0, before |-> word]
CodecIdle == CodecStart("raw", <<0, 0, 0, 0>>, new_nibbles(0, 0), "time_first", new_empty_data)

\* The timecodes handed to add_frame: every frame number of a second and the top of a
\* u8 (only a timecode of unknown rate has more frames than a second), the seconds and
\* minutes around their carry, the hours around 24 and near the top of a u8.
MaxAdds == 2
ClockFrames == (0..29) \cup (253..255)
ClockSeconds == {0, 58, 59}
ClockMinutes == {0, 58, 59}
ClockHours == {0, 23, 24, 254}
FrameRates == {"Unknown", "TwentyFour", "TwentyFive", "Thirty"}
ClockStart(tc) ==
    /\ timecode = tc
    /\ clock = [before |-> tc, adds |-> 0, panicked |-> FALSE]
ClockIdle == ClockStart(TimecodeFrame_new(0, 0, 0, 0, "Unknown"))

\* The payload durations handed to the classification: every number of samples up to
\* MaxDurationMs milliseconds at three sampling rates.
MaxDurationMs == 36
DurationRates == {44100, 48000, 96000}
RateStart(rate, count) == measured = [rate |-> rate, count |-> count, result |-> None]
RateIdle == RateStart(44100, 1)

\* The sizes handed to the cross state: every number of samples between two crosses up
\* to MaxCrossSize, which covers half a bit and a bit at 24 to 30 fps and 44100 Hz.
MaxCrossSize == 30
SizeStart ==
    /\ cross_state = ThresholdCrossState_new
    /\ sized = [op |-> "new", size |-> 0, before |-> ThresholdCrossState_new, cross |-> "None"]
SizeIdle == SizeStart

\* The clean two-level signals handed to the cross detector: runs of a bit ("full") and
\* of half a bit ("half") of 25 fps timecode, repeated for ever: zeros, ones, and a
\* zero followed by a one.  The samples are counted up to MaxWaveSamples.
MaxWaveSamples == 600
WavePatterns == {<<"full">>, <<"half", "half">>, <<"full", "half", "half">>}
WaveRunLength(kind, rate) == IF kind = "full" THEN FullRun(rate) ELSE HalfRun(rate)
WaveStart(rate, pattern) ==
    /\ detector = Detector_new
    /\ wave = [rate |-> rate, pattern |-> pattern, pos |-> 1, level |-> 0, run_left |-> 0,
               n |-> 0]
    /\ crossed = [cross |-> "None", found |-> FALSE, calibrated |-> FALSE]
WaveIdle == WaveStart(48000, <<"full">>)
UnitIdle == CodecIdle /\ ClockIdle /\ RateIdle /\ SizeIdle /\ WaveIdle

(***************************************************************************)
(* The audio source of the bit decoder: a two-level signal made of runs of *)
(* equal samples.  While the calibrator has no threshold the source sends  *)
(* full-bit runs (a stream of zero bits); once it has one, each run length *)
(* is chosen freely among the edges of the decoder's windows.              *)
(***************************************************************************)
\* tests::test_recalculate_threshold: max 12, min -8
SampleOf(level) == IF level = 1 THEN 12 ELSE -8

RunLengths(rate) ==
    {min_sample_count_for_halfbit(rate) - 2,
     HalfRun(rate),
     max_sample_count_for_halfbit(rate),
     min_sample_count_for_bit(rate) - 1,
     FullRun(rate),
     max_sample_count_for_bit(rate),
     max_sample_count_for_bit(rate) + 1}

NoObs ==
    [was_sync |-> FALSE, bit |-> None, has_error |-> 0, event |-> "-",
     state_changed |-> FALSE, count |-> 0, flag |-> FALSE, level_changed |-> FALSE,
     mid_seen |-> FALSE]

BitStart(rate) ==
    /\ bit_decoder = BitDecoder_new(rate)
    /\ signal = [rate |-> rate, level |-> 0, prev_level |-> 0, run_left |-> 0, n |-> 0,
                 runs |-> <<>>]
    /\ obs = NoObs
    /\ trace = [decoded |-> <<>>, lock_run |-> 0, locks |-> 0, lost |-> 0, mid_seen |-> FALSE,
                since |-> 0]

\* the bit decoder is not used
BitIdle == BitStart(44100)

\* the frame registers are not used
FrameIdle ==
    /\ ltc_frame = new_empty
    /\ pending = <<>>
    /\ pc = "shift"
    /\ got = None
    /\ bits = <<>>
    /\ sent = <<>>
    /\ events = <<>>

BitInit ==
    /\ \E rate \in SampleRates : BitStart(rate)
    /\ FrameIdle
    /\ LtcIdle
    /\ CalIdle
    /\ ZeroIdle
    /\ UnitIdle

\* the source goes on with a full-bit run while the calibrator has no threshold
PreambleRun ==
    /\ signal.run_left = 0
    /\ signal.n < MaxSamples
    /\ ~bit_decoder.sample_bounds.valid
    /\ signal' = [signal EXCEPT !.level = 1 - signal.level,
                                !.run_left = FullRun(signal.rate)]
    /\ UNCHANGED <<bit_decoder, obs, trace, frameVars, ltcVars, calVars, zeroVars, unitVars>>

\* the source starts a run of a freely chosen length
FreeRun ==
    /\ signal.run_left = 0
    /\ signal.n < MaxSamples
    /\ bit_decoder.sample_bounds.valid
    /\ Len(signal.runs) < MaxRuns
    /\ \E len \in RunLengths(signal.rate) :
          signal' = [signal EXCEPT !.level = 1 - signal.level,
                                   !.run_left = len,
                                   !.runs = Append(signal.runs, len)]
    /\ UNCHANGED <<bit_decoder, obs, trace, frameVars, ltcVars, calVars, zeroVars, unitVars>>

\* LtcDecoder::push_sample after BitDecoder::push_sample has returned bit: a decoded bit
\* is shifted into the frame registers and get_data is asked for a payload
FrameOfBit(bit) ==
    IF bit.some
        THEN /\ ltc_frame' = shift_bit(ltc_frame, IF bit.val THEN 1 ELSE 0)
             /\ got' = get_data(shift_bit(ltc_frame, IF bit.val THEN 1 ELSE 0))
             /\ bits' = Append(bits, IF bit.val THEN 1 ELSE 0)
        ELSE /\ got' = None
             /\ UNCHANGED <<ltc_frame, bits>>

\* LtcDecoder::push_sample (BitDecoder::push_sample, LtcFrame::shift_bit, get_data)
\* with the next sample of the source
PushSample ==
    /\ signal.run_left > 0
    /\ signal.n < MaxSamples
    /\ LET r == BitDecoder_push_sample(bit_decoder, SampleOf(signal.level))
           was_sync == bit_decoder.heartbeat_in_sync
           now_sync == r.bd.heartbeat_in_sync
           level_changed == signal.level # signal.prev_level
           in_half == /\ r.count >= bit_decoder.min_number_of_samples_per_half_bit
                      /\ r.count <= bit_decoder.max_number_of_samples_per_half_bit
       IN  /\ bit_decoder' = r.bd
           /\ obs' = [was_sync |-> was_sync, bit |-> r.bit, has_error |-> r.has_error,
                      event |-> r.event, state_changed |-> r.state_changed,
                      count |-> r.count, flag |-> r.flag, level_changed |-> level_changed,
                      mid_seen |-> trace.mid_seen]
           /\ trace' = [decoded |-> IF ~was_sync /\ now_sync THEN <<>>
                                    ELSE IF r.bit.some THEN Append(trace.decoded, r.bit.val)
                                    ELSE trace.decoded,
                        lock_run |-> IF ~was_sync /\ now_sync THEN Len(signal.runs)
                                     ELSE trace.lock_run,
                        locks |-> IF ~was_sync /\ now_sync THEN trace.locks + 1 ELSE trace.locks,
                        lost |-> IF was_sync /\ ~now_sync THEN trace.lost + 1 ELSE trace.lost,
                        mid_seen |-> IF ~now_sync \/ ~was_sync \/ r.bit.some THEN FALSE
                                     ELSE IF level_changed /\ in_half THEN TRUE
                                     ELSE trace.mid_seen,
                        \* samples pushed since construction or the last invalidate(),
                        \* this one included, counted up to a window and one
                        since |-> IF r.has_error # 0 THEN 0
                                  ELSE IF trace.since > HISTORY_LEN THEN trace.since
                                  ELSE trace.since + 1]
           /\ FrameOfBit(r.bit)
    /\ signal' = [signal EXCEPT !.run_left = signal.run_left - 1,
                                !.n = signal.n + 1,
                                !.prev_level = signal.level]
    /\ UNCHANGED <<pending, pc, sent, events, ltcVars, calVars, zeroVars, unitVars>>

BitNext == PreambleRun \/ FreeRun \/ PushSample
SpecBit == BitInit /\ [][BitNext]_vars

\* A frame that has just been recognised: the sync register holds the sync word, the
\* 15 highest bits of the payload register (the next 15 to reach the sync register) are
\* any 15 bits, the bits below them are ones, and MaxShifts further bits are about to
\* be shifted in.
MaxShifts == 16
TopWord(top) ==
    [i \in 0..(DATA_BITS - 1) |->
        IF i > DATA_BITS - SYNC_BITS
            THEN (top \div Pow2(i - (DATA_BITS - SYNC_BITS + 1))) % 2
            ELSE 1]
SyncInit ==
    /\ \E top \in 0..(Pow2(SYNC_BITS - 1) - 1) :
          /\ ltc_frame = LtcFrame_new_raw(LTC_SYNC_WORD, TopWord(top))
          /\ got = get_data(LtcFrame_new_raw(LTC_SYNC_WORD, TopWord(top)))
          /\ events = <<[data |-> TopWord(top), at |-> 0]>>
    /\ pending = [k \in 1..MaxShifts |-> 1]
    /\ pc = "shift"
    /\ bits = <<>>
    /\ sent = <<>>
    /\ BitIdle
    /\ LtcIdle
    /\ CalIdle
    /\ ZeroIdle
    /\ UnitIdle

FrameInit ==
    /\ ltc_frame = new_empty
    /\ pending = <<>>
    /\ pc = "shift"
    /\ got = None
    /\ bits = <<>>
    /\ sent = <<>>
    /\ events = <<>>
    /\ BitIdle
    /\ LtcIdle
    /\ CalIdle
    /\ ZeroIdle
    /\ UnitIdle

\* a well-formed stream: the next 64 payload bits of a frame
SendPayload ==
    /\ pc = "shift" /\ pending = <<>>
    /\ Len(sent) < 2 * MaxFrames
    /\ Len(sent) % 2 = 0
    /\ \E id \in PayloadIds, order \in {"msb", "smpte"} :
          /\ sent' = Append(sent, PayloadChunk(id, order))
          /\ pending' = ChunkBits(PayloadChunk(id, order))
    /\ UNCHANGED <<ltc_frame, pc, got, bits, events, bitVars, ltcVars, calVars, zeroVars, unitVars>>

\* a well-formed stream: the sync word that ends the frame
SendSync ==
    /\ pc = "shift" /\ pending = <<>>
    /\ Len(sent) % 2 = 1
    /\ sent' = Append(sent, PlainChunk("sync"))
    /\ pending' = ChunkBits(PlainChunk("sync"))
    /\ UNCHANGED <<ltc_frame, pc, got, bits, events, bitVars, ltcVars, calVars, zeroVars, unitVars>>

\* an arbitrary stream: any chunk may follow any other
SendChunk ==
    /\ pc = "shift" /\ pending = <<>>
    /\ Len(sent) < MaxChunks
    /\ \E c \in {PayloadChunk("tc_a", "msb"), PayloadChunk("stray", "msb"),
                 PlainChunk("sync"), PlainChunk("tail"),
                 PlainChunk("bit0"), PlainChunk("bit1")} :
          /\ sent' = Append(sent, c)
          /\ pending' = ChunkBits(c)
    /\ UNCHANGED <<ltc_frame, pc, got, bits, events, bitVars, ltcVars, calVars, zeroVars, unitVars>>

\* LtcFrame::shift_bit with the next bit of the stream
ShiftBit ==
    /\ pc = "shift" /\ pending # <<>>
    /\ ltc_frame' = shift_bit(ltc_frame, Head(pending))
    /\ bits' = Append(bits, Head(pending))
    /\ pending' = Tail(pending)
    /\ pc' = "get"
    /\ UNCHANGED <<got, sent, events, bitVars, ltcVars, calVars, zeroVars, unitVars>>

\* LtcFrame::get_data, called after every shifted bit
GetData ==
    /\ pc = "get"
    /\ got' = get_data(ltc_frame)
    /\ events' = IF get_data(ltc_frame).some
                    THEN Append(events, [data |-> get_data(ltc_frame).val, at |-> Len(bits)])
                    ELSE events
    /\ pc' = "shift"
    /\ UNCHANGED <<ltc_frame, pending, bits, sent, bitVars, ltcVars, calVars, zeroVars, unitVars>>

StreamNext == SendPayload \/ SendSync \/ ShiftBit \/ GetData
SpecStream == FrameInit /\ [][StreamNext]_vars

FrameNext == SendChunk \/ ShiftBit \/ GetData
SpecFrame == FrameInit /\ [][FrameNext]_vars

SyncNext == ShiftBit \/ GetData
SpecSync == SyncInit /\ [][SyncNext]_vars

(***************************************************************************)
(* The pipeline fed from a recording                                       *)
(***************************************************************************)
LtcInit ==
    /\ \E rec \in Recordings : LtcStart(rec)
    /\ FrameIdle
    /\ BitIdle
    /\ CalIdle
    /\ ZeroIdle
    /\ UnitIdle

\* the recording t after its next run has begun: a whole zero bit or half a one bit
NextRun(t) ==
    LET bit == FrameBit(t.tc, t.pos)
        halves == IF bit = 0 THEN 2 ELSE 1
        bit_done == bit = 0 \/ t.half = 1
        frame_done == bit_done /\ t.pos = FRAME_BITS - 1
    IN  [t EXCEPT
            !.level = 1 - t.level,
            !.run_left = Boundary(t.k + halves, t.fps, t.rate) - Boundary(t.k, t.fps, t.rate),
            !.k = t.k + halves,
            !.half = IF bit_done THEN 0 ELSE 1,
            !.pos = IF bit_done THEN (t.pos + 1) % FRAME_BITS ELSE t.pos,
            !.tc = IF frame_done THEN NextTimecode(t.tc, t.fps) ELSE t.tc,
            !.frames_sent = IF frame_done THEN t.frames_sent + 1 ELSE t.frames_sent]

\* the recording goes on with its next run
TapeRun ==
    /\ tape.run_left = 0
    /\ tape.frames_sent < MaxTapeFrames
    /\ tape' = NextRun(tape)
    /\ UNCHANGED <<decoder, returned, frameVars, bitVars, calVars, zeroVars, unitVars>>

\* the caller's loop of tests::test_timecode_frames: r is what get_timecode_frame returned
Returned(r) ==
    /\ decoder' = r.dec
    /\ returned' =
          [count |-> IF r.frame.some THEN returned.count + 1 ELSE returned.count,
           prev |-> IF r.frame.some THEN returned.last ELSE returned.prev,
           last |-> IF r.frame.some THEN r.frame ELSE returned.last,
           bit |-> r.bit,
           frame |-> r.frame,
           invalidated |-> returned.invalidated \/ r.bit = "Invalid",
           \* the cross of this call and the state of the bit decoder before it
           cross |-> r.cross,
           was_state |-> decoder.bit_decoder.state,
           \* the last cross before the one of this call
           prev_cross |-> IF returned.cross # "None" THEN returned.cross
                          ELSE returned.prev_cross,
           \* bits returned since construction or the last Invalid, counted up to 2
           since_reset |-> IF r.bit = "Invalid" THEN 0
                           ELSE IF r.bit = "None" \/ returned.since_reset = 2
                               THEN returned.since_reset
                           ELSE returned.since_reset + 1,
           \* samples handed over since construction or the last Invalid, this one
           \* included, counted up to a window and one
           samples_since |-> IF r.bit = "Invalid" THEN 0
                             ELSE IF returned.samples_since > HISTORY_LEN
                                 THEN returned.samples_since
                             ELSE returned.samples_since + 1]

\* the next sample of the run under way is taken from the recording
NextSample ==
    /\ tape.run_left > 0
    /\ tape' = [tape EXCEPT !.run_left = tape.run_left - 1]

\* LtcDecoder::get_timecode_frame with the next sample of the recording
GetTimecodeFrame ==
    /\ NextSample
    /\ Returned(get_timecode_frame(decoder, TapeSample(tape.level)))
    /\ UNCHANGED <<frameVars, bitVars, calVars, zeroVars, unitVars>>

LtcNext == TapeRun \/ GetTimecodeFrame
SpecLtc == LtcInit /\ [][LtcNext]_vars

(***************************************************************************)
(* The pipeline fed from a recording with one illegal transition: a run    *)
(* that is neither a bit nor half a bit long is spliced in once, at the    *)
(* start of one of a few bits of the first two frames; the recording goes  *)
(* on unharmed behind it.                                                  *)
(***************************************************************************)
\* samples of the spliced run: a spike, half a bit, and a run between half a bit and
\* a bit
GlitchLengths == {3, 11, 16}
\* the bits in front of which the run may be spliced: payload, payload, sync word
GlitchBits == {2, 30, 70}

GlitchRun ==
    /\ tape.run_left = 0
    /\ ~tape.glitched
    /\ tape.frames_sent < 2
    /\ tape.half = 0
    /\ tape.pos \in GlitchBits
    /\ \E len \in GlitchLengths :
          tape' = [tape EXCEPT !.level = 1 - tape.level, !.run_left = len, !.glitched = TRUE]
    /\ UNCHANGED <<decoder, returned, frameVars, bitVars, calVars, zeroVars, unitVars>>

GlitchNext == TapeRun \/ GlitchRun \/ GetTimecodeFrame
SpecGlitch == LtcInit /\ [][GlitchNext]_vars

\* the caller goes on handing over the samples of the recording: a step that takes the
\* next sample is a GetTimecodeFrame step, and it is enabled whenever that is
SpecRecover ==
    /\ LtcInit
    /\ [][GlitchNext]_vars
    /\ WF_vars(TapeRun)
    /\ WF_tape(NextSample)

(***************************************************************************)
(* The calibrator on its own                                               *)
(***************************************************************************)
CalInit ==
    /\ \E base \in Bases : CalStart(base)
    /\ FrameIdle
    /\ BitIdle
    /\ LtcIdle
    /\ ZeroIdle
    /\ UnitIdle

\* SampleBounds::is_high with the next sample
CallIsHigh ==
    /\ feed.n < MaxPushes
    /\ \E sample \in IF feed.n + 1 \in SpecialAt THEN Values \cup {feed.base} ELSE {feed.base} :
          /\ sample_bounds' = SampleBounds_is_high(sample_bounds, sample).sb
          /\ answer' = [op |-> "is_high", sample |-> sample,
                        result |-> SampleBounds_is_high(sample_bounds, sample).result,
                        was_valid |-> sample_bounds.valid]
          /\ feed' = [feed EXCEPT !.n = feed.n + 1,
                                  !.since = feed.since + 1,
                                  !.window = Append(Tail(feed.window), sample)]
    /\ UNCHANGED <<frameVars, bitVars, ltcVars, zeroVars, unitVars>>

\* SampleBounds::invalidate
CallInvalidate ==
    /\ feed.n \in InvalidateAt
    /\ answer.op # "invalidate"
    /\ sample_bounds' = SampleBounds_invalidate(sample_bounds)
    /\ answer' = [op |-> "invalidate", sample |-> 0, result |-> None,
                  was_valid |-> sample_bounds.valid]
    /\ feed' = [feed EXCEPT !.since = 0]
    /\ UNCHANGED <<frameVars, bitVars, ltcVars, zeroVars, unitVars>>

CalNext == CallIsHigh \/ CallInvalidate
SpecBounds == CalInit /\ [][CalNext]_vars

(***************************************************************************)
(* The zero detector on its own                                            *)
(***************************************************************************)
ZeroInit ==
    /\ \E rate \in SampleRates : ZeroStart(rate)
    /\ FrameIdle
    /\ BitIdle
    /\ LtcIdle
    /\ CalIdle
    /\ UnitIdle

\* the level changes: a run of a chosen length begins
ZeroRun ==
    /\ levels.run_left = 0
    /\ levels.runs < MaxZeroRuns
    /\ \E len \in ZeroRunLengths(levels.rate) :
          levels' = [levels EXCEPT !.level = ~levels.level, !.run_left = len,
                                   !.runs = levels.runs + 1, !.run = 0,
                                   !.ended = levels.run]
    /\ UNCHANGED <<zero_detector, frameVars, bitVars, ltcVars, calVars, unitVars>>

\* how a call fails: the detector sees a level change that does not end a zero
\* ("change"), or counts more than max_sample_count samples without one ("overrun")
FailureOf(zd, is_high, result) ==
    IF zd.sample_count = 0 THEN "none"
    ELSE IF zd.is_high # is_high THEN (IF result THEN "none" ELSE "change")
    ELSE IF zd.sample_count + 1 > zd.max_sample_count THEN "overrun"
    ELSE "none"

\* ZeroDetector::is_end_of_zero with the level of the next sample.  The record keeps
\* track of the failures: armed says that the run under way is the first one that
\* began with a level change at or after a failure, was_armed says it of the run
\* that ended with this sample.
IsEndOfZero ==
    /\ levels.run_left > 0
    /\ zero_detector' = is_end_of_zero(zero_detector, levels.level).zd
    /\ LET result == is_end_of_zero(zero_detector, levels.level).result
           failure == FailureOf(zero_detector, levels.level, result)
           first == levels.run = 0
           change == first /\ levels.runs > 1
       IN  levels' = [levels EXCEPT
                         !.run_left = levels.run_left - 1,
                         !.run = levels.run + 1,
                         !.changed = change,
                         !.result = result,
                         !.failure = failure,
                         !.pending = IF first THEN FALSE
                                     ELSE levels.pending \/ failure = "overrun",
                         !.armed = IF first
                                       THEN change /\ (levels.pending \/ failure = "change")
                                       ELSE levels.armed,
                         !.was_armed = IF first THEN levels.armed ELSE FALSE]
    /\ UNCHANGED <<frameVars, bitVars, ltcVars, calVars, unitVars>>

ZeroNext == ZeroRun \/ IsEndOfZero
SpecZero == ZeroInit /\ [][ZeroNext]_vars

(***************************************************************************)
(* The field codec on its own: the setters are applied to a payload word   *)
(* one after the other, the getters read it back; or a raw word is read.   *)
(***************************************************************************)
CodecInit ==
    /\ \/ \E time \in CodecTimes, nibbles \in CodecNibbles, word \in StartWords,
             order \in {"time_first", "user_first"} :
             CodecStart("encode", time, nibbles, order, word)
       \/ \E word \in RawWords :
             CodecStart("raw", <<0, 0, 0, 0>>, new_nibbles(0, 0), "time_first", word)
       \/ \E word \in StartWords \cup RawWords :
             CodecStart("set", <<0, 0, 0, 0>>, new_nibbles(0, 0), "time_first", word)
    /\ FrameIdle
    /\ BitIdle
    /\ LtcIdle
    /\ CalIdle
    /\ ZeroIdle
    /\ ClockIdle
    /\ RateIdle
    /\ SizeIdle
    /\ WaveIdle

\* set_hours, set_minutes, set_seconds, set_frames, in the order of new_with_time
SetTime ==
    /\ codec.mode = "encode"
    /\ codec.time_set < 4
    /\ codec.order = "time_first" \/ codec.user_set = 8
    /\ frame_data' = CASE codec.time_set = 0 -> set_hours(frame_data, codec.time[1])
                        [] codec.time_set = 1 -> set_minutes(frame_data, codec.time[2])
                        [] codec.time_set = 2 -> set_seconds(frame_data, codec.time[3])
                        [] OTHER -> set_frames(frame_data, codec.time[4])
    /\ codec' = [codec EXCEPT !.time_set = codec.time_set + 1, !.decoded = None]
    /\ UNCHANGED <<frameVars, bitVars, ltcVars, calVars, zeroVars, clockVars, measured, sizeVars, detectorVars>>

\* the eight set_*_user_bits, from the frame units to the hour tens
SetUserBits ==
    /\ codec.mode = "encode"
    /\ codec.user_set < 8
    /\ codec.order = "user_first" \/ codec.time_set = 4
    /\ LET v == codec.nibbles[codec.user_set + 1]
       IN  frame_data' =
               CASE codec.user_set = 0 -> set_frame_units_user_bits(frame_data, v)
                 [] codec.user_set = 1 -> set_frame_tens_user_bits(frame_data, v)
                 [] codec.user_set = 2 -> set_second_units_user_bits(frame_data, v)
                 [] codec.user_set = 3 -> set_second_tens_user_bits(frame_data, v)
                 [] codec.user_set = 4 -> set_minute_units_user_bits(frame_data, v)
                 [] codec.user_set = 5 -> set_minute_tens_user_bits(frame_data, v)
                 [] codec.user_set = 6 -> set_hour_units_user_bits(frame_data, v)
                 [] OTHER -> set_hour_tens_user_bits(frame_data, v)
    /\ codec' = [codec EXCEPT !.user_set = codec.user_set + 1, !.decoded = None]
    /\ UNCHANGED <<frameVars, bitVars, ltcVars, calVars, zeroVars, clockVars, measured, sizeVars, detectorVars>>

\* the setter of the given number: the four time setters, then the eight user-bit
\* setters from the frame units to the hour tens
call_setter(d, setter, v) ==
    CASE setter = 1 -> set_hours(d, v)
      [] setter = 2 -> set_minutes(d, v)
      [] setter = 3 -> set_seconds(d, v)
      [] setter = 4 -> set_frames(d, v)
      [] setter = 5 -> set_frame_units_user_bits(d, v)
      [] setter = 6 -> set_frame_tens_user_bits(d, v)
      [] setter = 7 -> set_second_units_user_bits(d, v)
      [] setter = 8 -> set_second_tens_user_bits(d, v)
      [] setter = 9 -> set_minute_units_user_bits(d, v)
      [] setter = 10 -> set_minute_tens_user_bits(d, v)
      [] setter = 11 -> set_hour_units_user_bits(d, v)
      [] OTHER -> set_hour_tens_user_bits(d, v)

\* one setter, with any u8 value, on the word as it is
CallSetter ==
    /\ codec.mode = "set"
    /\ codec.sets < MaxSets
    /\ \E setter \in 1..SetterCount, v \in SetterValues :
          /\ frame_data' = call_setter(frame_data, setter, v)
          /\ codec' = [codec EXCEPT !.sets = codec.sets + 1, !.setter = setter, !.value = v,
                                    !.before = frame_data, !.decoded = None]
    /\ UNCHANGED <<frameVars, bitVars, ltcVars, calVars, zeroVars, clockVars, measured, sizeVars, detectorVars>>

\* the twelve getters on the word as it is
ReadBack ==
    /\ codec.mode # "set"
    /\ ~codec.decoded.some
    /\ codec' = [codec EXCEPT !.decoded = Some(Decoded(frame_data))]
    /\ UNCHANGED <<frame_data, frameVars, bitVars, ltcVars, calVars, zeroVars, clockVars, measured, sizeVars, detectorVars>>

CodecNext == SetTime \/ SetUserBits \/ CallSetter \/ ReadBack
SpecCodec == CodecInit /\ [][CodecNext]_vars

(***************************************************************************)
(* TimecodeFrame on its own                                                *)
(***************************************************************************)
ClockInit ==
    /\ \E hours \in ClockHours, minutes \in ClockMinutes, seconds \in ClockSeconds,
          frames \in ClockFrames, frames_per_second \in FrameRates :
          /\ FramesOf(frames_per_second) > 0 => frames < FramesOf(frames_per_second)
          /\ ClockStart(TimecodeFrame_new(hours, minutes, seconds, frames, frames_per_second))
    /\ FrameIdle
    /\ BitIdle
    /\ LtcIdle
    /\ CalIdle
    /\ ZeroIdle
    /\ CodecIdle
    /\ RateIdle
    /\ SizeIdle
    /\ WaveIdle

\* TimecodeFrame::add_frame
AddFrame ==
    /\ clock.adds < MaxAdds
    /\ ~clock.panicked
    /\ \/ /\ ~add_frame_overflows(timecode)
          /\ timecode' = add_frame(timecode)
          /\ clock' = [before |-> timecode, adds |-> clock.adds + 1, panicked |-> FALSE]
       \/ /\ add_frame_overflows(timecode)
          /\ \/ /\ timecode' = add_frame(timecode)
                /\ clock' = [before |-> timecode, adds |-> clock.adds + 1,
                             panicked |-> FALSE]
             \/ /\ timecode' = timecode
                /\ clock' = [before |-> timecode, adds |-> clock.adds + 1,
                             panicked |-> TRUE]
    /\ UNCHANGED <<frameVars, bitVars, ltcVars, calVars, zeroVars, codecVars, measured, sizeVars, detectorVars>>

ClockNext == AddFrame
SpecClock == ClockInit /\ [][ClockNext]_vars

(***************************************************************************)
(* The frame-rate classification on its own                                *)
(***************************************************************************)
RateInit ==
    /\ \E rate \in DurationRates :
          \E count \in 1..((rate * MaxDurationMs) \div 1000) : RateStart(rate, count)
    /\ FrameIdle
    /\ BitIdle
    /\ LtcIdle
    /\ CalIdle
    /\ ZeroIdle
    /\ CodecIdle
    /\ ClockIdle
    /\ SizeIdle
    /\ WaveIdle

\* FramesPerSecond::from_frame_duration_without_syncword_in_s(count / rate)
ClassifyDuration ==
    /\ ~measured.result.some
    /\ measured' = [measured EXCEPT !.result =
            Some(from_frame_duration_without_syncword_in_s(measured.count, measured.rate))]
    /\ UNCHANGED <<frameVars, bitVars, ltcVars, calVars, zeroVars, codecVars, clockVars, sizeVars, detectorVars>>

RateNext == ClassifyDuration
SpecRate == RateInit /\ [][RateNext]_vars

(***************************************************************************)
(* ThresholdCrossState on its own                                          *)
(***************************************************************************)
SizeInit ==
    /\ SizeStart
    /\ FrameIdle
    /\ BitIdle
    /\ LtcIdle
    /\ CalIdle
    /\ ZeroIdle
    /\ CodecIdle
    /\ ClockIdle
    /\ RateIdle
    /\ WaveIdle

\* ThresholdCrossState::cross_from_cross_size
CrossFromCrossSize ==
    /\ \E size \in 1..MaxCrossSize :
          /\ cross_state' = cross_from_cross_size(cross_state, size).st
          /\ sized' = [op |-> "cross", size |-> size, before |-> cross_state,
                       cross |-> cross_from_cross_size(cross_state, size).cross]
    /\ UNCHANGED <<frameVars, bitVars, ltcVars, calVars, zeroVars, codecVars, clockVars, measured, detectorVars>>

\* ThresholdCrossState::invalidate
InvalidateCrossState ==
    /\ sized.op = "cross"
    /\ cross_state' = ThresholdCrossState_invalidate(cross_state)
    /\ sized' = [op |-> "invalidate", size |-> 0, before |-> cross_state, cross |-> "None"]
    /\ UNCHANGED <<frameVars, bitVars, ltcVars, calVars, zeroVars, codecVars, clockVars, measured, detectorVars>>

SizeNext == CrossFromCrossSize \/ InvalidateCrossState
SpecCross == SizeInit /\ [][SizeNext]_vars

(***************************************************************************)
(* ThresholdCrossDetector (threshold_cross_detector.rs) on its own, fed    *)
(* sample by sample with a signal that never ends                          *)
(***************************************************************************)
WaveInit ==
    /\ \E rate \in SampleRates, pattern \in WavePatterns : WaveStart(rate, pattern)
    /\ FrameIdle
    /\ BitIdle
    /\ LtcIdle
    /\ CalIdle
    /\ ZeroIdle
    /\ CodecIdle
    /\ ClockIdle
    /\ RateIdle
    /\ SizeIdle

\* the level changes: the next run of the pattern begins
WaveRun ==
    /\ wave.run_left = 0
    /\ wave' = [wave EXCEPT !.level = 1 - wave.level,
                            !.run_left = WaveRunLength(wave.pattern[wave.pos], wave.rate),
                            !.pos = (wave.pos % Len(wave.pattern)) + 1]
    /\ UNCHANGED <<detector, crossed, frameVars, bitVars, ltcVars, calVars, zeroVars,
                   codecVars, clockVars, measured, sizeVars>>

\* the next sample of the run under way is taken from the signal
NextWaveSample ==
    /\ wave.run_left > 0
    /\ wave' = [wave EXCEPT !.run_left = wave.run_left - 1,
                            !.n = IF wave.n < MaxWaveSamples THEN wave.n + 1 ELSE wave.n]

\* ThresholdCrossDetector::crosses with the next sample of the signal
CallCrosses ==
    /\ NextWaveSample
    /\ detector' = Detector_crosses(detector, SampleOf(wave.level)).tcd
    /\ crossed' = [cross |-> Detector_crosses(detector, SampleOf(wave.level)).cross,
                   found |-> crossed.found
                                \/ Detector_crosses(detector, SampleOf(wave.level)).cross
                                       \in {"Short", "Long"},
                   calibrated |-> crossed.calibrated
                                     \/ Detector_crosses(detector, SampleOf(wave.level))
                                            .tcd.sample_bounds.valid]
    /\ UNCHANGED <<frameVars, bitVars, ltcVars, calVars, zeroVars,
                   codecVars, clockVars, measured, sizeVars>>

WaveNext == WaveRun \/ CallCrosses
SpecDetector == WaveInit /\ [][WaveNext]_vars

\* the caller goes on handing over the samples of the signal: a step that takes the
\* next sample is a CallCrosses step, and it is enabled whenever that is
SpecDetectorLive ==
    /\ WaveInit
    /\ [][WaveNext]_vars
    /\ WF_vars(WaveRun)
    /\ WF_wave(NextWaveSample)

(***************************************************************************)
(* Claims about LtcFrame                                                   *)
(***************************************************************************)
\* k frames <payload><sync> have been shifted in completely
FramesFed(k) == pc = "shift" /\ pending = <<>> /\ Len(sent) = 2 * k

\* bit of the stream at position e (1 = first bit shifted in); the registers start at zero
StreamBit(e) == IF e >= 1 THEN bits[e] ELSE 0

\* the 16 stream bits ending at position e are the sync word
SyncEndsAt(e) == \A k \in 1..SYNC_BITS : StreamBit(e - SYNC_BITS + k) = SyncStream[k]

\* the only places of the stream that show the sync pattern are the sync words of the frames
StrayFree == \A e \in 1..Len(bits) : SyncEndsAt(e) => e % (DATA_BITS + SYNC_BITS) = 0

\* position of the last bit of the i-th payload
PayloadEnd(i) == (DATA_BITS + SYNC_BITS) * (i - 1) + DATA_BITS

\* C3 as stated: N frames <payload><sync> yield exactly N Some(payload) results,
\* the i-th equal to the i-th payload.
C3_NFramesNEvents ==
    \A k \in 1..MaxFrames :
        FramesFed(k) =>
            /\ Len(events) = k
            /\ \A i \in 1..k : DataAsStream(events[i].data) = ChunkBits(sent[2 * i - 1])

\* C3 amended: the register reports the 64 bits that FOLLOW a sync word.  After N
\* frames <payload><sync> every payload but the first has been returned, at the bit
\* that completed it; the first payload is never returned at its last bit; and when the
\* sync pattern appears nowhere else in the stream there are exactly N - 1
\* results, the i-th equal to the (i+1)-th payload.
C3_FollowingPayload ==
    \A k \in 1..MaxFrames :
        FramesFed(k) =>
            /\ \A i \in 2..k : \E j \in 1..Len(events) :
                    /\ events[j].at = PayloadEnd(i)
                    /\ DataAsStream(events[j].data) = ChunkBits(sent[2 * i - 1])
            /\ \A j \in 1..Len(events) : events[j].at # PayloadEnd(1)
            /\ StrayFree =>
                    /\ Len(events) = k - 1
                    /\ \A i \in 1..(k - 1) :
                            /\ events[i].at = PayloadEnd(i + 1)
                            /\ DataAsStream(events[i].data) = ChunkBits(sent[2 * i + 1])

\* C3 witness: three clean frames were fed and the second and third payload came back
C3_Witness ==
    /\ FramesFed(3)
    /\ StrayFree
    /\ Len(events) = 2
    /\ sent[1].id # sent[3].id

\* C4 as stated: a timecode payload shifted in SMPTE order (payload bit 0 first) and
\* delimited by the sync word is returned with the encoded hours, minutes, seconds, frames.
C4_SmpteOrderDecodes ==
    \A j \in 1..Len(events) :
        LET e == events[j]
            i == ((e.at - DATA_BITS) \div (DATA_BITS + SYNC_BITS)) + 1
        IN  (/\ e.at = PayloadEnd(i)
             /\ sent[2 * i - 1].order = "smpte"
             /\ sent[2 * i - 1].id \in TimecodeIds)
            => /\ get_hours(e.data) = Timecode(sent[2 * i - 1].id).hours
               /\ get_minutes(e.data) = Timecode(sent[2 * i - 1].id).minutes
               /\ get_seconds(e.data) = Timecode(sent[2 * i - 1].id).seconds
               /\ get_frames(e.data) = Timecode(sent[2 * i - 1].id).frames

\* C5: get_data returns Some exactly when the sync register holds 0011 1111 1111 1101,
\* the payload returned is the data register of that moment, get_data changes no
\* register, and no later call changes a payload that was already returned.
C5_GetDataIffSync ==
    [][/\ pc = "get" =>
            /\ got'.some = (ltc_frame.sync_word = 16381)
            /\ got'.some => got'.val = ltc_frame.data
            /\ ltc_frame' = ltc_frame
       /\ pc = "shift" => got' = got]_vars

\* C5 witness: a payload was returned and the live register has shifted on since
C5_Witness ==
    /\ got.some
    /\ got.val # ltc_frame.data
    /\ ltc_frame.sync_word # LTC_SYNC_WORD

\* C6: both registers form one 80 bit FIFO.  Each shift_bit moves data up by one with
\* the new bit in bit 0 and moves the old bit 63 of data into bit 0 of sync_word; after
\* n >= 80 calls data holds the last 64 bits (newest in bit 0) and sync_word the 16
\* bits before them (oldest in bit 15).
C6_Fifo ==
    /\ [](Len(bits) >= DATA_BITS + SYNC_BITS =>
            /\ \A i \in 0..(DATA_BITS - 1) : ltc_frame.data[i] = bits[Len(bits) - i]
            /\ \A j \in 0..(SYNC_BITS - 1) :
                    (ltc_frame.sync_word \div Pow2(j)) % 2 = bits[Len(bits) - DATA_BITS - j])
    /\ [][(pc = "shift" /\ pending # <<>>) =>
            /\ ltc_frame'.data[0] = Head(pending)
            /\ \A i \in 1..(DATA_BITS - 1) : ltc_frame'.data[i] = ltc_frame.data[i - 1]
            /\ ltc_frame'.sync_word = (2 * ltc_frame.sync_word + ltc_frame.data[63]) % 65536]_vars

\* C6 witness: more than 80 bits went in and a one has just moved from data into sync_word
C6_Witness ==
    /\ Len(bits) > DATA_BITS + SYNC_BITS
    /\ pc = "get"
    /\ ltc_frame.sync_word % 2 = 1
    /\ ltc_frame.data[0] = 0
    /\ ltc_frame.sync_word \div 32768 = 1

(***************************************************************************)
(* Claims about the expected-event-window BitDecoder                       *)
(***************************************************************************)
RECURSIVE CleanFrom(_, _)
\* runs i..to are full-bit runs and pairs of half-bit runs: a clean biphase stream
CleanFrom(i, to) ==
    IF i > to THEN TRUE
    ELSE IF signal.runs[i] = FullRun(signal.rate) THEN CleanFrom(i + 1, to)
    ELSE IF signal.runs[i] = HalfRun(signal.rate)
        THEN i + 1 > to \/ (signal.runs[i + 1] = HalfRun(signal.rate) /\ CleanFrom(i + 2, to))
    ELSE FALSE

RECURSIVE Encoded(_, _)
\* the bits that runs i..to encode: a full-bit run is 0, two half-bit runs are 1
Encoded(i, to) ==
    IF i > to THEN <<>>
    ELSE IF signal.runs[i] = FullRun(signal.rate) THEN <<FALSE>> \o Encoded(i + 1, to)
    ELSE IF i + 1 <= to THEN <<TRUE>> \o Encoded(i + 2, to)
    ELSE <<>>

\* C1 as stated: once locked, a clean biphase stream is decoded to exactly the encoded
\* bits, one per bit boundary, and the lock is never lost.  (Checked whenever a run has
\* been pushed completely: the bits of all earlier runs must have come out.)
C1_CleanStreamDecodes ==
    (/\ trace.locks >= 1
     /\ signal.run_left = 0
     /\ CleanFrom(trace.lock_run, Len(signal.runs)))
    => /\ bit_decoder.heartbeat_in_sync
       /\ trace.decoded = Encoded(trace.lock_run, Len(signal.runs) - 1)

C8_EmitResetsCounter ==
    obs.bit.some =>
        /\ bit_decoder.sample_count_in_bit = 0
        /\ ~bit_decoder.has_change_in_middle_bit

Steady(event) == IF event \in {"MustBeSteadyOne", "MustBeSteadyTwo"} THEN "MustBeSteady" ELSE event

\* C9: the expected event as a function of the counter c and the mid-change flag.
C9_ExpectedEventTable ==
    obs.event # "-" =>
        LET c == obs.count
            min_half == bit_decoder.min_number_of_samples_per_half_bit
            max_half == bit_decoder.max_number_of_samples_per_half_bit
            min_bit == bit_decoder.min_number_of_samples_per_bit
            max_bit == bit_decoder.max_number_of_samples_per_bit
        IN  /\ c < min_half => Steady(obs.event) = "MustBeSteady"
            /\ (min_half <= c /\ c <= max_half /\ ~obs.flag) => obs.event = "CanChangeInMiddle"
            /\ (min_half <= c /\ c <= max_half /\ obs.flag) => Steady(obs.event) = "MustBeSteady"
            /\ (max_half < c /\ c < min_bit) => Steady(obs.event) = "MustBeSteady"
            /\ (min_bit <= c /\ c <= max_bit) => obs.event = "CanChangeInEnd"
            /\ c > max_bit => obs.event = "Overdue"

\* C9 witness: inside the half-bit window after a mid-bit change
C9_Witness ==
    /\ obs.event = "MustBeSteadyTwo"
    /\ obs.flag
    /\ obs.count <= bit_decoder.max_number_of_samples_per_half_bit

\* a level change as the decoder in lock sees it (the sample that acquires lock sets the
\* level tracker and is no change)
ChangeInLock == obs.was_sync /\ obs.level_changed

\* C10: a level change under MustBeSteady, or any sample under Overdue, returns None
\* and leaves the decoder invalidated; MustBeSteady or CanChangeInEnd without a level
\* change returns None and keeps the lock.
C10_IllegalInvalidates ==
    /\ ((Steady(obs.event) = "MustBeSteady" /\ ChangeInLock) \/ obs.event = "Overdue") =>
            /\ ~obs.bit.some
            /\ ~bit_decoder.sample_bounds.valid
            /\ bit_decoder.sample_bounds.min_value = 0
            /\ bit_decoder.sample_bounds.max_value = 0
            /\ bit_decoder.sample_bounds.threshold = 0
            /\ bit_decoder.sample_bounds.received_count = 0
            /\ bit_decoder.zero_detector.sample_count = 0
            /\ ~bit_decoder.heartbeat_in_sync
            /\ bit_decoder.sample_count_in_bit = 0
            /\ ~bit_decoder.has_change_in_middle_bit
    /\ (Steady(obs.event) \in {"MustBeSteady", "CanChangeInEnd"} /\ ~ChangeInLock) =>
            /\ ~obs.bit.some
            /\ bit_decoder.heartbeat_in_sync

\* C10 witness: the end of the bit was overdue and the decoder is invalidated
C10_Witness ==
    /\ obs.event = "Overdue"
    /\ obs.was_sync
    /\ ~bit_decoder.heartbeat_in_sync

\* C12 as stated: whenever the BitDecoder loses synchronization, LtcDecoder::push_sample
\* leaves the LtcFrame registers invalidated (zero), so that no bit decoded before the
\* loss of lock can be part of a frame returned later.
C12_LossInvalidatesFrame ==
    (obs.was_sync /\ ~bit_decoder.heartbeat_in_sync) =>
        /\ ltc_frame.data = new_empty_data
        /\ ltc_frame.sync_word = 0

(***************************************************************************)
(* Claims about the calibrator SampleBounds and the ZeroDetector           *)
(***************************************************************************)
\* how often the value v is stored in h
Count(h, v) == Cardinality({i \in 1..Len(h) : h[i] = v})

\* the call recalculated the bounds: it was the 255th push since the last recalculation,
\* construction or invalidate
Recalculated == answer.op = "is_high" /\ sample_bounds.received_count = 0

\* C15: the history always holds exactly the last 255 pushed samples (zeros while fewer
\* were pushed since construction), each push replacing the oldest one, and at every
\* recalculation, the first after construction or invalidate() and every later one,
\* min_value and max_value are the minimum and maximum of the last 255 pushed samples.
C15_WindowBounds ==
    /\ \A v \in Values \cup Bases :
            Count(sample_bounds.sample_history, v) = Count(feed.window, v)
    /\ Recalculated =>
            /\ feed.since >= HISTORY_LEN
            /\ feed.since % HISTORY_LEN = 0
            /\ sample_bounds.min_value = SeqMin(feed.window)
            /\ sample_bounds.max_value = SeqMax(feed.window)

\* C15 witness: a later recalculation, with a maximum pushed after the first window and
\* a minimum that is no initial zero
C15_Witness ==
    /\ Recalculated
    /\ feed.since = 2 * HISTORY_LEN
    /\ sample_bounds.max_value = 234
    /\ sample_bounds.min_value = 1

\* integer division by 2 that truncates towards zero
IntHalf(x) == IF x >= 0 THEN x \div 2 ELSE -((-x) \div 2)

\* C16 as stated: after every recalculation threshold = (min + max) / 2.
C16_ThresholdIsMean ==
    Recalculated => sample_bounds.threshold = IntHalf(sample_bounds.min_value + sample_bounds.max_value)

\* C16 amended: after every recalculation threshold = max / 2 + min / 2, each half
\* truncated towards zero before the sum is taken; it differs from (min + max) / 2 by at
\* most 1 and equals it when min and max are both even.
C16_ThresholdIsSumOfHalves ==
    Recalculated =>
        LET lo == sample_bounds.min_value
            hi == sample_bounds.max_value
            mean == IntHalf(lo + hi)
        IN  /\ sample_bounds.valid
            /\ 2 * sample_bounds.threshold =
                    (hi - (IF hi >= 0 THEN hi % 2 ELSE -((-hi) % 2)))
                  + (lo - (IF lo >= 0 THEN lo % 2 ELSE -((-lo) % 2)))
            /\ sample_bounds.threshold - mean \in {-1, 0, 1}
            /\ (lo % 2 = 0 /\ hi % 2 = 0) => sample_bounds.threshold = mean

\* C16 witness: the bounds of tests::test_recalculate, threshold 117 where the mean is 116
C16_Witness ==
    /\ Recalculated
    /\ sample_bounds.min_value = -1
    /\ sample_bounds.max_value = 234
    /\ sample_bounds.threshold = 117

\* C17: is_high returns None until 255 samples have been pushed since construction or
\* since the last invalidate(), and Some from the push that completes the window on.
C17_UnknownUntilWindow ==
    answer.op = "is_high" => (answer.result.some <=> feed.since >= HISTORY_LEN)

\* C17 witness: the push that completes the window after an invalidate() is answered
C17_Witness ==
    /\ answer.op = "is_high"
    /\ answer.result.some
    /\ ~answer.was_valid
    /\ feed.since = HISTORY_LEN
    /\ feed.n > feed.since

\* C18: in a valid state is_high answers High exactly when the sample is above the
\* threshold; a sample equal to the threshold is Low.
C18_HighIffAbove ==
    (answer.op = "is_high" /\ sample_bounds.valid) =>
        /\ answer.result.some
        /\ answer.result.val = (answer.sample > sample_bounds.threshold)

\* C18 witness: a sample equal to a threshold other than zero is answered Low
C18_Witness ==
    /\ answer.op = "is_high"
    /\ sample_bounds.valid
    /\ sample_bounds.threshold # 0
    /\ answer.sample = sample_bounds.threshold
    /\ answer.result = Some(FALSE)

\* C19: invalidate sets min_value, max_value and threshold to zero, received_count to 0
\* and valid to false, and leaves the sample history as it is.
C19_InvalidateKeepsHistory ==
    [][answer'.op = "invalidate" =>
            /\ sample_bounds'.min_value = 0
            /\ sample_bounds'.max_value = 0
            /\ sample_bounds'.threshold = 0
            /\ sample_bounds'.received_count = 0
            /\ ~sample_bounds'.valid
            /\ sample_bounds'.sample_history = sample_bounds.sample_history]_vars

\* C19 witness: a valid calibrator with bounds, a count and samples in its history was
\* invalidated
C19_Witness ==
    /\ answer.op = "invalidate"
    /\ answer.was_valid
    /\ feed.n % HISTORY_LEN # 0
    /\ Count(sample_bounds.sample_history, 234) >= 1
    /\ ~sample_bounds.valid

\* C20 as stated: is_end_of_zero returns true only on a sample whose level differs from
\* the preceding sample's, and only when the run of equal levels that just ended is
\* min_sample_count to max_sample_count samples long.
C20_LockOnlyOnBitRun ==
    levels.result =>
        /\ levels.changed
        /\ levels.ended >= zero_detector.min_sample_count
        /\ levels.ended <= zero_detector.max_sample_count

(***************************************************************************)
(* Claims about the pipeline LtcDecoder::get_timecode_frame                *)
(***************************************************************************)
\* C2 as stated: for a continuous LTC input every frame returned by get_timecode_frame
\* after the first equals the previously returned frame advanced by one add_frame call.
C2_ConsecutiveFrames ==
    returned.count >= 2 => returned.last.val = add_frame(returned.prev.val)

\* C11: after an illegal transition has invalidated the decoder, a clean signal with
\* zero bits and one bits makes the bit decoder leave OutOfSync and return bits again.
C11_Recovers ==
    (returned.bit = "Invalid")
        ~> (decoder.bit_decoder.state # "OutOfSync" /\ returned.bit \in {"True", "False"})

\* C11 witness: the spliced run invalidated the decoder and a one bit was decoded later
C11_Witness ==
    /\ tape.glitched
    /\ returned.invalidated
    /\ returned.bit = "True"
    /\ decoder.bit_decoder.state = "BitCompleted"

\* C13: a sample on which get_bit reports Invalid returns None, shifts no bit and leaves
\* the whole decoder reset.
C13_InvalidResetsAll ==
    returned.bit = "Invalid" =>
        /\ ~returned.frame.some
        /\ decoder.bit_decoder.state = "OutOfSync"
        /\ ~decoder.bit_decoder.threshold_cross_detector.counting
        /\ decoder.bit_decoder.threshold_cross_detector.is_high = None
        /\ decoder.bit_decoder.threshold_cross_detector.count = 0
        /\ decoder.bit_decoder.threshold_cross_detector.state.half_size = 0
        /\ decoder.bit_decoder.threshold_cross_detector.state.full_size = 0
        /\ ~decoder.bit_decoder.threshold_cross_detector.state.valid
        /\ ~decoder.bit_decoder.threshold_cross_detector.sample_bounds.valid
        /\ decoder.ltc_frame.data = new_empty_data
        /\ decoder.ltc_frame.sync_word = 0

\* C13 witness: the spliced run was reported Invalid after a frame had been returned,
\* that is with decoded bits in both registers
C13_Witness ==
    /\ returned.bit = "Invalid"
    /\ tape.glitched
    /\ returned.count >= 1

\* C14 as stated: LtcFrame::invalidate zeroes the payload register, the sync register
\* and the sample counter frame_data_sample_count.
C14_InvalidateZeroesCounter ==
    returned.bit = "Invalid" =>
        /\ decoder.ltc_frame.data = new_empty_data
        /\ decoder.ltc_frame.sync_word = 0
        /\ decoder.ltc_frame.frame_data_sample_count = 0

(***************************************************************************)
(* Claims about the field codec                                            *)
(***************************************************************************)
\* the fields written so far read back as the values handed to the setters
TimeReadBack(fits) ==
    /\ codec.time_set >= 1 /\ fits[1] => codec.decoded.val.hours = codec.time[1]
    /\ codec.time_set >= 2 /\ fits[2] => codec.decoded.val.minutes = codec.time[2]
    /\ codec.time_set >= 3 /\ fits[3] => codec.decoded.val.seconds = codec.time[3]
    /\ codec.time_set >= 4 /\ fits[4] => codec.decoded.val.frames = codec.time[4]
UserReadBack == \A k \in 1..codec.user_set : codec.decoded.val.user[k] = codec.nibbles[k]

\* C21 as stated: for all hours, minutes, seconds and frames in [0, 99] and all user
\* nibbles, what the set_* functions wrote is what the get_* functions read back.
C21_RoundTrip ==
    codec.mode = "encode" /\ codec.decoded.some =>
        TimeReadBack(<<TRUE, TRUE, TRUE, TRUE>>) /\ UserReadBack

\* the tens digit of a value fits the width of its tens range
TensFit(val, range) == val \div 10 < Pow2(range[2] - range[1])

\* C21 amended: the user nibbles always read back exactly, and a time value reads back
\* exactly when its tens digit fits the tens range of the field, which is two bits for
\* hours and frames (values up to 39) and three bits for minutes and seconds (values
\* up to 79); whatever the word held before and whichever fields are written first.
C21_RoundTripInRange ==
    codec.mode = "encode" /\ codec.decoded.some =>
        /\ TimeReadBack(<<TensFit(codec.time[1], BIT_RANGE_HOUR_TENS),
                          TensFit(codec.time[2], BIT_RANGE_MINUTE_TENS),
                          TensFit(codec.time[3], BIT_RANGE_SECOND_TENS),
                          TensFit(codec.time[4], BIT_RANGE_FRAME_TENS)>>)
        /\ UserReadBack
        /\ \A v \in 0..99 : TensFit(v, BIT_RANGE_HOUR_TENS) <=> v <= 39
        /\ \A v \in 0..99 : TensFit(v, BIT_RANGE_SECOND_TENS) <=> v <= 79

\* 39:79:79:39 and the nibbles 1, 3, .. 15 were written over a word of ones and read back
C21_Witness ==
    /\ codec.mode = "encode" /\ codec.decoded.some
    /\ codec.time_set = 4 /\ codec.user_set = 8
    /\ codec.time = <<39, 79, 79, 39>>
    /\ codec.nibbles = <<1, 3, 5, 7, 9, 11, 13, 15>>
    /\ frame_data[10] = 1 /\ frame_data[59] = 1
    /\ codec.decoded.val.hours = 39 /\ codec.decoded.val.seconds = 79

\* the value of the bits lo, lo + 1, .. of a word, written out bit by bit
Bits2(d, lo) == d[lo] + 2 * d[lo + 1]
Bits3(d, lo) == d[lo] + 2 * d[lo + 1] + 4 * d[lo + 2]
Bits4(d, lo) == d[lo] + 2 * d[lo + 1] + 4 * d[lo + 2] + 8 * d[lo + 3]

\* the word with bit i inverted
Flip(d, i) == [d EXCEPT ![i] = 1 - d[i]]

\* the bits a result is made of
OwnBits ==
    [hours |-> (48..51) \cup (56..57), minutes |-> (32..35) \cup (40..42),
     seconds |-> (16..19) \cup (24..26), frames |-> (0..3) \cup (8..9)]
OwnUserBits == <<4..7, 12..15, 20..23, 28..31, 36..39, 44..47, 52..55, 60..63>>

\* C22: the getters return units + 10 * tens of the stated bit ranges and the eight
\* user nibbles of the stated ranges, and inverting a bit of the word changes the one
\* result that bit belongs to and no other; inverting a reserved bit (10, 11, 27, 43,
\* 58, 59) changes none.
C22_GettersReadOwnBits ==
    codec.decoded.some =>
        /\ codec.decoded.val.frames = Bits4(frame_data, 0) + 10 * Bits2(frame_data, 8)
        /\ codec.decoded.val.seconds = Bits4(frame_data, 16) + 10 * Bits3(frame_data, 24)
        /\ codec.decoded.val.minutes = Bits4(frame_data, 32) + 10 * Bits3(frame_data, 40)
        /\ codec.decoded.val.hours = Bits4(frame_data, 48) + 10 * Bits2(frame_data, 56)
        /\ \A k \in 1..8 : codec.decoded.val.user[k] = Bits4(frame_data, 8 * k - 4)
        /\ \A i \in 0..(DATA_BITS - 1) :
              LET other == Decoded(Flip(frame_data, i))
              IN  /\ \A f \in {"hours", "minutes", "seconds", "frames"} :
                        other[f] # codec.decoded.val[f] <=> i \in OwnBits[f]
                  /\ \A k \in 1..8 :
                        other.user[k] # codec.decoded.val.user[k] <=> i \in OwnUserBits[k]

\* the second word of test_get_bits was read: 05:38:14:29 with the reserved bits 10
\* and 11 set
C22_Witness ==
    /\ codec.mode = "raw" /\ codec.decoded.some
    /\ frame_data[10] = 1 /\ frame_data[11] = 1 /\ frame_data[8] = 0
    /\ codec.decoded.val.hours = 5 /\ codec.decoded.val.minutes = 38
    /\ codec.decoded.val.seconds = 14 /\ codec.decoded.val.frames = 29

(***************************************************************************)
(* Claims about TimecodeFrame                                              *)
(***************************************************************************)
\* the number of the frame since 00:00:00:00 at the frame rate of the timecode
TotalFrames(tc) ==
    ((tc.hours * 60 + tc.minutes) * 60 + tc.seconds) * FramesOf(tc.frames_per_second)
        + tc.frames

\* a timecode add_frame is specified for
InRange(tc) ==
    /\ tc.frames_per_second \in {"TwentyFour", "TwentyFive", "Thirty"}
    /\ tc.frames < FramesOf(tc.frames_per_second)
    /\ tc.seconds < 60
    /\ tc.minutes < 60

\* C23: add_frame on a timecode of 24, 25 or 30 fps with frames < fps, seconds < 60,
\* minutes < 60 and hours < 255 yields the next timecode: the total frame number grows
\* by exactly 1, the fields stay in their ranges, the frame rate is kept, and the hours
\* are carried into without wrapping (23:59:59:last is followed by 24:00:00:00).
C23_AddFrameIsNext ==
    clock.adds > 0 /\ InRange(clock.before) /\ clock.before.hours < 255 =>
        /\ TotalFrames(timecode) = TotalFrames(clock.before) + 1
        /\ InRange(timecode)
        /\ timecode.frames_per_second = clock.before.frames_per_second
        /\ timecode.hours >= clock.before.hours
        /\ timecode.hours <= 255

\* 23:59:59:24 at 25 fps was advanced and all three carries happened
C23_Witness ==
    /\ clock.adds > 0
    /\ clock.before = TimecodeFrame_new(23, 59, 59, 24, "TwentyFive")
    /\ timecode = TimecodeFrame_new(24, 0, 0, 0, "TwentyFive")

(***************************************************************************)
(* Claims about the frame-rate classification                              *)
(***************************************************************************)
RateNames == [f \in {24, 25, 30} |->
                 CASE f = 24 -> "TwentyFour" [] f = 25 -> "TwentyFive" [] OTHER -> "Thirty"]

\* count / rate seconds divided by the nominal payload duration (1 / fps) * 64 / 80, as
\* a fraction: the duration is lo % of the nominal one or more (AtLeast), hi % or less
\* (AtMost)
AtLeast(count, rate, fps, lo) == count * fps * 80 * 100 >= lo * 64 * rate
AtMost(count, rate, fps, hi) == count * fps * 80 * 100 <= hi * 64 * rate

\* every duration within 1 % of a nominal one is classified as that rate
WithinOnePercent ==
    \A fps \in {24, 25, 30} :
        AtLeast(measured.count, measured.rate, fps, 99)
            /\ AtMost(measured.count, measured.rate, fps, 101)
                => measured.result.val = RateNames[fps]

\* C24 as stated: a nominal duration scaled by a factor within [0.99, 1.01] is
\* classified as that rate, and a nominal duration scaled by a factor <= 0.97 or
\* >= 1.03 is classified Unknown.
C24_ClassifiedOrUnknown ==
    measured.result.some =>
        /\ WithinOnePercent
        /\ \A fps \in {24, 25, 30} :
              AtMost(measured.count, measured.rate, fps, 97)
                  \/ AtLeast(measured.count, measured.rate, fps, 103)
                      => measured.result.val = "Unknown"

\* C24 amended: a duration within 1 % of a nominal one is classified as that rate; a
\* duration that is 3 % or more away from all three nominal durations is Unknown; and
\* a duration classified as a rate is less than 3 % away from the nominal duration of
\* that rate.  The nominal durations of 24 and 25 fps are 4 % apart, so the 24 fps
\* duration scaled by 0.97 is classified as 25 fps and the 25 fps duration scaled by
\* 1.03 as 24 fps.
C24_ClassifiedByNearest ==
    measured.result.some =>
        /\ WithinOnePercent
        /\ (\A fps \in {24, 25, 30} :
               AtMost(measured.count, measured.rate, fps, 97)
                   \/ AtLeast(measured.count, measured.rate, fps, 103))
              => measured.result.val = "Unknown"
        /\ \A fps \in {24, 25, 30} :
              measured.result.val = RateNames[fps] =>
                  /\ ~AtMost(measured.count, measured.rate, fps, 97)
                  /\ ~AtLeast(measured.count, measured.rate, fps, 103)

\* 3104 samples at 96000 Hz are 0.97 times the nominal 24 fps duration (3200 samples)
\* and 1.0104 times the nominal 25 fps duration (3072 samples): classified as 25 fps
C24_Witness ==
    /\ measured.rate = 96000 /\ measured.count = 3104
    /\ measured.result = Some("TwentyFive")

(***************************************************************************)
(* Claims about the sample counter of LtcFrame                             *)
(***************************************************************************)
\* C25: every get_timecode_frame call, whether it decodes a bit, reports Invalid or
\* neither, resets frame_data_sample_count to 0 if the payload register showed the
\* start-of-frame signature before the call and otherwise adds exactly 1 to it; and
\* nothing else changes the counter, which starts at 0.
C25_CountedOncePerSample ==
    [][LET count == decoder.ltc_frame.frame_data_sample_count
       IN  IF tape'.run_left = tape.run_left - 1
               THEN decoder'.ltc_frame.frame_data_sample_count =
                        IF next_bit_is_start_of_frame(decoder.ltc_frame.data)
                            THEN 0 ELSE count + 1
               ELSE decoder'.ltc_frame.frame_data_sample_count = count]_vars

\* a sample that decoded no bit was counted while the payload register showed the
\* sync word: the counter was reset; the second frame of the recording is under way
C25_Witness ==
    /\ returned.bit = "None"
    /\ tape.frames_sent >= 1
    /\ next_bit_is_start_of_frame(decoder.ltc_frame.data)
    /\ decoder.ltc_frame.frame_data_sample_count = 0
    /\ decoder.bit_decoder.state # "OutOfSync"

(***************************************************************************)
(* Claims about BitDecoder out of lock                                     *)
(***************************************************************************)
\* the last call found the decoder out of lock and left it locked
LockedNow == signal.n > 0 /\ ~obs.was_sync /\ bit_decoder.heartbeat_in_sync

\* C26: out of lock the within-bit counter is 0 and the mid-bit flag is false; the
\* sample on which the zero detector signals lock leaves the decoder locked with the
\* counter at 1, the flag false and the level tracker at the level of that sample,
\* decided as MustBeSteady without a state change; and a call that started out of
\* lock never returns a bit.
C26_OutOfLockIsReset ==
    /\ ~bit_decoder.heartbeat_in_sync =>
          /\ bit_decoder.sample_count_in_bit = 0
          /\ ~bit_decoder.has_change_in_middle_bit
    /\ LockedNow =>
          /\ bit_decoder.sample_count_in_bit = 1
          /\ obs.count = 1
          /\ ~bit_decoder.has_change_in_middle_bit
          /\ bit_decoder.is_high = (signal.prev_level = 1)
          /\ ~obs.state_changed
          /\ obs.event = "MustBeSteadyOne"
    /\ (signal.n > 0 /\ ~obs.was_sync) => ~obs.bit.some
    /\ trace.locks > 0 /\ ~obs.was_sync /\ obs.event # "-" => LockedNow

\* lock was acquired on a high sample, at the end of a run of low samples
C26_Witness ==
    /\ LockedNow
    /\ trace.locks = 1
    /\ obs.level_changed
    /\ bit_decoder.is_high
    /\ bit_decoder.sample_count_in_bit = 1

\* C27: a failure (a level change that does not end a zero, or more than
\* max_sample_count samples without a change) leaves the run counter at 0, and the
\* next run that begins with a level change at or after the failure and is
\* min_sample_count to max_sample_count samples long is answered true at the change
\* that ends it.
C27_SearchGoesOn ==
    /\ levels.failure # "none" => zero_detector.sample_count = 0
    /\ (/\ levels.changed
        /\ levels.was_armed
        /\ levels.ended >= zero_detector.min_sample_count
        /\ levels.ended <= zero_detector.max_sample_count) => levels.result

(***************************************************************************)
(* Claims about the threshold-cross BitDecoder                             *)
(***************************************************************************)
\* C28: get_bit returns True only on the second of two consecutive Short crosses in
\* sync (BitCompleted -> HalfBitReceived -> BitCompleted); a Long cross in BitCompleted
\* returns False; a Long cross in HalfBitReceived returns Invalid; out of sync a Short
\* cross returns None and only a Long cross acquires sync, returning False, so that the
\* first bit after construction or an invalidation is False.
C28_BitStateMachine ==
    LET state == decoder.bit_decoder.state
    IN  /\ returned.bit = "True" =>
              /\ returned.cross = "Short"
              /\ returned.prev_cross = "Short"
              /\ returned.was_state = "HalfBitReceived"
              /\ state = "BitCompleted"
        /\ (returned.cross = "Short" /\ returned.was_state = "BitCompleted") =>
              returned.bit = "None" /\ state = "HalfBitReceived"
        /\ (returned.cross = "Short" /\ returned.was_state = "HalfBitReceived") =>
              returned.bit = "True"
        /\ (returned.cross = "Long" /\ returned.was_state = "BitCompleted") =>
              returned.bit = "False" /\ state = "BitCompleted"
        /\ (returned.cross = "Long" /\ returned.was_state = "HalfBitReceived") =>
              returned.bit = "Invalid"
        /\ (returned.cross = "Short" /\ returned.was_state = "OutOfSync") =>
              returned.bit = "None" /\ state = "OutOfSync"
        /\ (returned.cross = "Long" /\ returned.was_state = "OutOfSync") =>
              returned.bit = "False" /\ state = "BitCompleted"
        /\ (returned.was_state = "OutOfSync" /\ state # "OutOfSync") =>
              returned.cross = "Long"
        /\ (returned.since_reset = 1 /\ returned.bit \in {"True", "False"}) =>
              returned.bit = "False"
        /\ returned.since_reset = 0 => state = "OutOfSync"

\* a Long cross arrived after a single Short cross in sync and Invalid was returned
C28_Witness ==
    /\ returned.cross = "Long"
    /\ returned.was_state = "HalfBitReceived"
    /\ returned.prev_cross = "Short"
    /\ returned.bit = "Invalid"

(***************************************************************************)
(* Claims about ThresholdCrossState                                        *)
(***************************************************************************)
\* size / comp lies in [4/5, 5/4]
WithinFifth(size, comp) == 5 * size >= 4 * comp /\ 4 * size <= 5 * comp

\* size lies between 4/5 and 5/4 of comp, both rounded down to whole samples
WithinFifthRoundedDown(size, comp) == size >= (4 * comp) \div 5 /\ size <= (5 * comp) \div 4

\* a valid state has 0 < half_size < full_size, and a call on a valid state leaves
\* valid, half_size and full_size as they are
ValidSizesKept ==
    /\ cross_state.valid => 0 < cross_state.half_size /\ cross_state.half_size < cross_state.full_size
    /\ (sized.op = "cross" /\ sized.before.valid) =>
          /\ cross_state.valid
          /\ cross_state.half_size = sized.before.half_size
          /\ cross_state.full_size = sized.before.full_size

\* C29 as stated: whenever valid, 0 < half_size < full_size, and the sizes are kept
\* until invalidate(); while valid a size within [4/5, 5/4] of full_size is Long,
\* otherwise one within [4/5, 5/4] of half_size is Short, and any other is Invalid.
C29_ClassifiedByFifths ==
    /\ ValidSizesKept
    /\ (sized.op = "cross" /\ sized.before.valid) =>
          sized.cross = IF WithinFifth(sized.size, sized.before.full_size) THEN "Long"
                        ELSE IF WithinFifth(sized.size, sized.before.half_size) THEN "Short"
                        ELSE "Invalid"

\* C29 amended: as stated, with the two ends of the tolerance rounded down to whole
\* samples: a size from (4 * full_size) / 5 to (5 * full_size) / 4 (integer divisions)
\* is Long, otherwise one from (4 * half_size) / 5 to (5 * half_size) / 4 is Short, any
\* other is Invalid; so 17 samples are Long for full_size 22 although 17 / 22 < 4 / 5.
C29_ClassifiedByRoundedFifths ==
    /\ ValidSizesKept
    /\ (sized.op = "cross" /\ sized.before.valid) =>
          sized.cross =
              IF WithinFifthRoundedDown(sized.size, sized.before.full_size) THEN "Long"
              ELSE IF WithinFifthRoundedDown(sized.size, sized.before.half_size) THEN "Short"
              ELSE "Invalid"

\* half_size 11 and full_size 22 were measured and a later cross of 17 samples was Long
C29_Witness ==
    /\ sized.op = "cross" /\ sized.before.valid
    /\ cross_state.valid /\ cross_state.half_size = 11 /\ cross_state.full_size = 22
    /\ sized.size = 17 /\ sized.cross = "Long"

(***************************************************************************)
(* Claims about ThresholdCrossDetector (threshold_cross_detector.rs)       *)
(***************************************************************************)
\* C30: fed sample by sample with a clean two-level signal of half-bit and full-bit
\* runs, crosses() eventually returns a Short or a Long cross.
C30_EventuallyCross == <>(crossed.cross \in {"Short", "Long"})

\* the bits a setter may write, and the digits it is to store there: units and tens
\* for the four time setters, the nibble for the user-bit setters
SetterBits ==
    <<OwnBits.hours, OwnBits.minutes, OwnBits.seconds, OwnBits.frames>> \o OwnUserBits
SetterUnitsAt == <<48, 32, 16, 0>>
SetterTensAt == <<56, 40, 24, 8>>

\* C31: a setter call leaves every bit outside its own field ranges as it was, whatever
\* the value, and its fields hold the digits cut to the field width: the units digit,
\* the tens digit modulo 4 (frames, hours) or 8 (seconds, minutes), the user value
\* modulo 16.
C31_SettersKeepOtherBits ==
    codec.mode = "set" /\ codec.sets > 0 =>
        /\ \A i \in 0..(DATA_BITS - 1) :
              i \notin SetterBits[codec.setter] => frame_data[i] = codec.before[i]
        /\ codec.setter \in {1, 4} =>
              /\ Bits4(frame_data, SetterUnitsAt[codec.setter]) = codec.value % 10
              /\ Bits2(frame_data, SetterTensAt[codec.setter]) = (codec.value \div 10) % 4
        /\ codec.setter \in {2, 3} =>
              /\ Bits4(frame_data, SetterUnitsAt[codec.setter]) = codec.value % 10
              /\ Bits3(frame_data, SetterTensAt[codec.setter]) = (codec.value \div 10) % 8
        /\ codec.setter >= 5 =>
              Bits4(frame_data, 8 * (codec.setter - 4) - 4) = codec.value % 16

\* set_hours(99) on the word of reserved bits alone: tens 9 is stored as 1, and the
\* reserved bits 58 and 59 above the hour tens are still set
C31_Witness ==
    /\ codec.mode = "set" /\ codec.sets = 1
    /\ codec.setter = 1 /\ codec.value = 99
    /\ codec.before[58] = 1 /\ codec.before[59] = 1 /\ codec.before[56] = 0
    /\ frame_data[56] = 1 /\ frame_data[57] = 0
    /\ frame_data[58] = 1 /\ frame_data[59] = 1

\* C32: add_frame on a timecode of unknown frame rate with seconds <= 59 and minutes
\* <= 59 returns with frames one higher and seconds, minutes, hours and the frame rate
\* as before, however many calls came before.
C32_UnknownCountsOn ==
    /\ clock.adds > 0
    /\ clock.before.frames_per_second = "Unknown"
    /\ clock.before.seconds <= 59
    /\ clock.before.minutes <= 59
    => /\ ~clock.panicked
       /\ timecode.frames = clock.before.frames + 1
       /\ timecode.seconds = clock.before.seconds
       /\ timecode.minutes = clock.before.minutes
       /\ timecode.hours = clock.before.hours
       /\ timecode.frames_per_second = "Unknown"

(***************************************************************************)
(* Claims about the first frame of LtcFrame                                *)
(***************************************************************************)
\* C33: get_data returns None until at least 80 bits have been shifted into an empty
\* LtcFrame, whatever the bits are.
C33_NoFrameBefore80Bits ==
    /\ got.some => Len(bits) >= DATA_BITS + SYNC_BITS
    /\ \A k \in 1..Len(events) : events[k].at >= DATA_BITS + SYNC_BITS

\* C34: any two shift_bit calls after which get_data returns Some are at least 16
\* shift_bit calls apart, whatever bits pass through the registers.
C34_SyncWordsSixteenApart ==
    \A j, k \in 1..Len(events) : j < k => events[k].at - events[j].at >= SYNC_BITS

\* the 16 bits behind a recognised frame were the sync word again: a second Some came
\* with the 16th shift
C34_Witness ==
    /\ Len(events) = 2
    /\ events[1].at = 0 /\ events[2].at = SYNC_BITS
    /\ Len(bits) = SYNC_BITS
    /\ got.some

(***************************************************************************)
(* Claims about the calibrator's bounds                                    *)
(***************************************************************************)
\* C35: whenever the calibrator is valid, its threshold lies between its bounds:
\* min_value <= threshold <= max_value.
C35_ThresholdBetweenBounds ==
    sample_bounds.valid =>
        /\ sample_bounds.min_value <= sample_bounds.threshold
        /\ sample_bounds.threshold <= sample_bounds.max_value

\* C36: a calibrator that was valid before an is_high call is valid after it, and the
\* call answers Some: only invalidate() takes a valid calibrator back to Unknown.
C36_StaysValid ==
    answer.op = "is_high" /\ answer.was_valid =>
        sample_bounds.valid /\ answer.result.some

\* the second recalculation after construction, on a window of the lowest sample value
\* alone, left the calibrator valid
C36_Witness ==
    /\ answer.op = "is_high" /\ answer.was_valid
    /\ feed.since = 2 * HISTORY_LEN
    /\ sample_bounds.received_count = 0
    /\ sample_bounds.valid
    /\ sample_bounds.min_value = SAMPLE_MIN /\ sample_bounds.max_value = SAMPLE_MIN
    /\ sample_bounds.threshold = SAMPLE_MIN

WindowOf(fps) ==
    DurationBound(WithoutSyncWord(
        CASE fps = 24 -> DURATION_TWENTY_FOUR_FULL_FRAME_IN_S
          [] fps = 25 -> DURATION_TWENTY_FIVE_FULL_FRAME_IN_S
          [] OTHER -> DURATION_THIRTY_FULL_FRAME_IN_S))
InWindow(fps) == is_in_duration_bounds(measured.count, measured.rate, WindowOf(fps))

\* C38: the windows of 24, 25 and 30 fps are pairwise disjoint (the window of 30 fps
\* ends before that of 25 fps begins, which ends before that of 24 fps begins), so a
\* duration is inside at most one window and is classified as a rate exactly when it
\* is inside the window of that rate, in whichever order the windows are tested.
C38_WindowsDisjoint ==
    /\ WindowOf(30)[1] < WindowOf(30)[2]
    /\ WindowOf(30)[2] <= WindowOf(25)[1]
    /\ WindowOf(25)[1] < WindowOf(25)[2]
    /\ WindowOf(25)[2] <= WindowOf(24)[1]
    /\ WindowOf(24)[1] < WindowOf(24)[2]
    /\ measured.result.some =>
          /\ Cardinality({fps \in {24, 25, 30} : InWindow(fps)}) <= 1
          /\ \A fps \in {24, 25, 30} : InWindow(fps) <=> measured.result.val = RateNames[fps]
          /\ measured.result.val = "Unknown" <=> \A fps \in {24, 25, 30} : ~InWindow(fps)

\* 3135 samples at 96000 Hz lie between the window of 25 fps and the window of 24 fps:
\* classified as neither
C38_Witness ==
    /\ measured.rate = 96000 /\ measured.count = 3135
    /\ measured.result = Some("Unknown")
    /\ DurationCompare(measured.count, measured.rate, WindowOf(25)[2]) > 0
    /\ DurationCompare(measured.count, measured.rate, WindowOf(24)[1]) < 0

(***************************************************************************)
(* Claims about the counters of the expected-event-window decoder          *)
(***************************************************************************)
\* C39: after every BitDecoder::push_sample call sample_count_in_bit is at most
\* max_number_of_samples_per_bit, and after every ZeroDetector::is_end_of_zero call
\* (of the detector inside the bit decoder and of a detector on its own) sample_count
\* is at most max_sample_count.
C39_CountersBounded ==
    /\ bit_decoder.sample_count_in_bit <= bit_decoder.max_number_of_samples_per_bit
    /\ bit_decoder.zero_detector.sample_count <= bit_decoder.zero_detector.max_sample_count
    /\ zero_detector.sample_count <= zero_detector.max_sample_count

\* a locked decoder counted one sample more than a bit may have: the event was Overdue
\* and the counter is back at 0
C39_Witness ==
    /\ obs.was_sync
    /\ obs.event = "Overdue"
    /\ obs.count = bit_decoder.max_number_of_samples_per_bit + 1
    /\ bit_decoder.sample_count_in_bit = 0
    /\ ~bit_decoder.heartbeat_in_sync

====
